---- MODULE Spec2Model ----
(***************************************************************************)
(* State-machine model of the Game Boy emulator core: bus and bank         *)
(* controllers (MMU), CPU step and interrupt dispatch, pixel unit timing,  *)
(* timer, sound unit sample ring, input latch, and the frame driver with   *)
(* its save states.                                                        *)
(*                                                                         *)
(* Byte arrays are zero-filled at construction; they are kept as sparse    *)
(* functions that hold only the non-zero cells, so that an array of any    *)
(* length has one canonical value.                                         *)
(***************************************************************************)
EXTENDS Integers, Sequences, FiniteSets, TLC

VARIABLES mmu, cpu, ppu, timer, input, apu, emu, obs

vars == <<mmu, cpu, ppu, timer, input, apu, emu, obs>>

(***************************************************************************)
(* Integer helpers for the JavaScript bit operations (operands >= 0).      *)
(***************************************************************************)
RECURSIVE And(_, _)
And(a, b) ==
    IF a = 0 \/ b = 0 THEN 0
    ELSE (a % 2) * (b % 2) + 2 * And(a \div 2, b \div 2)

Or(a, b) == a + b - And(a, b)

AndNot(a, m) == a - And(a, m)

Shl(a, n) == a * (2 ^ n)

Shr(a, n) == a \div (2 ^ n)

Bit(a, n) == (a \div (2 ^ n)) % 2

Byte == 0 .. 255

(***************************************************************************)
(* Sparse zero-filled arrays.                                              *)
(***************************************************************************)
Zeros == [x \in {} |-> 0]

Get(m, k) == IF k \in DOMAIN m THEN m[k] ELSE 0

Put(m, k, v) ==
    IF v = 0 THEN [x \in DOMAIN m \ {k} |-> m[x]]
    ELSE [x \in DOMAIN m \cup {k} |-> IF x = k THEN v ELSE m[x]]

Dirty(m) == Cardinality(DOMAIN m)

(***************************************************************************)
(* Cartridge images.  An image is given by its header bytes, its length    *)
(* and the bytes of a program; every other byte follows a fixed pattern    *)
(* that tells the banks apart.                                             *)
(***************************************************************************)
BankSize == 16384

RomFill(i) == ((i \div BankSize) + 7 * (i % BankSize)) % 256

TitleByte(title, k) == IF k < Len(title) THEN title[k + 1] ELSE 0

RomData(rom, i) ==
    IF i = 327 THEN rom.cartType
    ELSE IF i = 328 THEN rom.romSize
    ELSE IF i = 329 THEN rom.ramSize
    ELSE IF i >= 308 /\ i < 324 THEN TitleByte(rom.title, i - 308)
    ELSE IF i \in DOMAIN rom.code THEN rom.code[i]
    ELSE RomFill(i)

Cart(type, romSize, ramSize, title, code) ==
    [cartType |-> type, romSize |-> romSize, ramSize |-> ramSize,
     title |-> title, length |-> BankSize * Shl(2, romSize), code |-> code]

NoRom == [cartType |-> 0, romSize |-> 0, ramSize |-> 0, title |-> <<>>,
          length |-> 0, code |-> Zeros]

TitleA == <<84, 69, 83, 84>>

TitleB == <<90, 69, 76, 68, 65>>

(***************************************************************************)
(* Input latch.                                                            *)
(***************************************************************************)
InputReset == [buttons |-> 15, directions |-> 15, p1 |-> 255]

InputRead(inp) ==
    LET r0 == Or(inp.p1, 15)
        r1 == IF And(inp.p1, 32) = 0 THEN And(r0, 240) + inp.buttons ELSE r0
        r2 == IF And(inp.p1, 16) = 0 THEN And(r1, 240) + inp.directions ELSE r1
    IN  Or(r2, 192)

InputWrite(inp, value) ==
    [inp EXCEPT !.p1 = Or(And(value, 48), And(inp.p1, 207))]

\* The line (directions or buttons) and the bit of each mapped key code.
KeyMap ==
    [ArrowRight |-> <<"directions", 1>>, ArrowLeft |-> <<"directions", 2>>,
     ArrowUp |-> <<"directions", 4>>, ArrowDown |-> <<"directions", 8>>,
     KeyZ |-> <<"buttons", 1>>, KeyX |-> <<"buttons", 2>>,
     ShiftRight |-> <<"buttons", 4>>, ShiftLeft |-> <<"buttons", 4>>,
     Enter |-> <<"buttons", 8>>]

\* Input.onKey(event, pressed) for a mapped key: the latch afterwards.
InputOnKey(inp, code, pressed) ==
    LET line == KeyMap[code][1]
        mask == KeyMap[code][2]
        now(v) == IF pressed THEN AndNot(v, mask) ELSE Or(v, mask)
    IN  IF line = "directions" THEN [inp EXCEPT !.directions = now(@)]
        ELSE [inp EXCEPT !.buttons = now(@)]

(***************************************************************************)
(* Timer.                                                                  *)
(***************************************************************************)
TimerReset ==
    [div |-> 0, tima |-> 0, tma |-> 0, tac |-> 0, divCycles |-> 0, timaCycles |-> 0]

Frequencies == <<1024, 16, 64, 256>>

\* Mutant of TimaTicks: an overflow restarts TIMA at 0 instead of TMA.
RECURSIVE TimaTicks_ReloadZero(_, _, _, _)
TimaTicks_ReloadZero(tima, tma, n, ovf) ==
    IF n = 0 THEN <<tima, ovf>>
    ELSE IF tima + 1 > 255 THEN TimaTicks_ReloadZero(0, tma, n - 1, TRUE)
    ELSE TimaTicks_ReloadZero(tima + 1, tma, n - 1, ovf)

\* The TIMA loop of Timer.step: n ticks, each reloading from TMA on overflow.
\* Yields <<tima, overflowed>>.
RECURSIVE TimaTicks(_, _, _, _)
TimaTicks(tima, tma, n, ovf) ==
    IF n = 0 THEN <<tima, ovf>>
    ELSE IF tima + 1 > 255 THEN TimaTicks(tma, tma, n - 1, TRUE)
    ELSE TimaTicks(tima + 1, tma, n - 1, ovf)

\* Timer.step(cycles) on the pair of the timer and the IF register.
TimerStep(S, cycles) ==
    LET t == S.timer
        dtot == t.divCycles + cycles
        t1 == [t EXCEPT !.divCycles = dtot % 256,
                        !.div = (t.div + dtot \div 256) % 256]
    IN  IF And(t.tac, 4) = 0 THEN [S EXCEPT !.timer = t1]
        ELSE LET threshold == Frequencies[And(t.tac, 3) + 1]
                 ttot == t.timaCycles + cycles
                 res == TimaTicks(t.tima, t.tma, ttot \div threshold, FALSE)
             IN  [S EXCEPT
                    !.timer = [t1 EXCEPT !.timaCycles = ttot % threshold,
                                         !.tima = res[1]],
                    !.mmu.io = IF res[2] THEN Put(@, 15, Or(Get(@, 15), 4)) ELSE @]

(***************************************************************************)
(* Pixel unit.  The frame buffer holds one colour per pixel; the four      *)
(* colours of the palette are distinct, so a pixel is kept as its index    *)
(* 0..3 into PPU.colors.  Of each 160-pixel scanline the model keeps the   *)
(* leftmost ViewW pixels.                                                  *)
(***************************************************************************)
ViewW == 2

ScreenW == 160

ScreenH == 144

\* The canvas image starts blank (no colour of the palette) and is replaced by
\* a copy of the frame buffer each time a frame is presented.
BlankImage == [shown |-> FALSE, px |-> Zeros]

\* The pixel unit as constructed: reset() on a blank canvas image.
PpuNew ==
    [lcdc |-> 145, stat |-> 133, scy |-> 0, scx |-> 0, ly |-> 0, lyc |-> 0,
     wy |-> 0, wx |-> 0, bgp |-> 252, obp0 |-> 255, obp1 |-> 255,
     mode |-> 2, modeCycles |-> 0, windowLine |-> 0, frameBuffer |-> Zeros,
     imageData |-> BlankImage]

PpuReset(p) == [PpuNew EXCEPT !.imageData = p.imageData]

PpuReadRegister(p, addr) ==
    CASE addr = 65344 -> p.lcdc
      [] addr = 65345 -> Or(Or(And(p.stat, 252), IF p.ly = p.lyc THEN 4 ELSE 0), p.mode)
      [] addr = 65346 -> p.scy
      [] addr = 65347 -> p.scx
      [] addr = 65348 -> p.ly
      [] addr = 65349 -> p.lyc
      [] addr = 65351 -> p.bgp
      [] addr = 65352 -> p.obp0
      [] addr = 65353 -> p.obp1
      [] addr = 65354 -> p.wy
      [] addr = 65355 -> p.wx
      [] OTHER -> 255

\* Mutant of LcdcWritten: turning the LCD off leaves line and mode as they are.
LcdcWritten_KeepsLine(p, value) == [p EXCEPT !.lcdc = value]

\* The LCDC case of PPU.writeRegister.
LcdcWritten(p, value) ==
    IF And(p.lcdc, 128) # 0 /\ And(value, 128) = 0
    THEN [p EXCEPT !.lcdc = value, !.ly = 0, !.mode = 0, !.modeCycles = 0]
    ELSE [p EXCEPT !.lcdc = value]

PpuWriteRegister(p, addr, value) ==
    CASE addr = 65344 -> LcdcWritten(p, value)
      [] addr = 65345 -> [p EXCEPT !.stat = Or(And(value, 248), And(p.stat, 7))]
      [] addr = 65346 -> [p EXCEPT !.scy = value]
      [] addr = 65347 -> [p EXCEPT !.scx = value]
      [] addr = 65349 -> [p EXCEPT !.lyc = value]
      [] addr = 65351 -> [p EXCEPT !.bgp = value]
      [] addr = 65352 -> [p EXCEPT !.obp0 = value]
      [] addr = 65353 -> [p EXCEPT !.obp1 = value]
      [] addr = 65354 -> [p EXCEPT !.wy = value]
      [] addr = 65355 -> [p EXCEPT !.wx = value]
      [] OTHER -> p

\* (tileNum << 24) >> 24: the tile number as a signed byte.
SignedByte(b) == IF b >= 128 THEN b - 256 ELSE b

GetTilePixel(vram, tileAddr, x, y) ==
    LET addr == tileAddr + y * 2 - 32768
        lo == Get(vram, addr)
        hi == Get(vram, addr + 1)
    IN  Bit(lo, 7 - x) + 2 * Bit(hi, 7 - x)

TileDataAddr(p, tileNum) ==
    IF And(p.lcdc, 16) # 0 THEN 32768 + tileNum * 16
    ELSE 36864 + SignedByte(tileNum) * 16

\* renderBackground: the colour index of pixel x of the line.
BackgroundPixel(p, vram, line, x) ==
    LET tileMapBase == IF And(p.lcdc, 8) # 0 THEN 39936 ELSE 38912
        y == (line + p.scy) % 256
        tileRow == (y \div 8) % 32
        scrolledX == (x + p.scx) % 256
        tileCol == (scrolledX \div 8) % 32
        tileNum == Get(vram, tileMapBase + tileRow * 32 - 32768 + tileCol)
        colorId == GetTilePixel(vram, TileDataAddr(p, tileNum), scrolledX % 8, y % 8)
    IN  Shr(p.bgp, colorId * 2) % 4

WindowDrawn(p, line) ==
    And(p.lcdc, 32) # 0 /\ And(p.lcdc, 1) # 0 /\ ~(p.wy > line \/ p.wx > 166)

\* renderWindow: the colour index of pixel x, over the pixel `under` it.
WindowPixel(p, vram, line, x, under) ==
    IF ~WindowDrawn(p, line) \/ x < p.wx - 7 THEN under
    ELSE LET tileMap == IF And(p.lcdc, 64) # 0 THEN 39936 ELSE 38912
             windowX == x - (p.wx - 7)
             tileRow == (p.windowLine \div 8) % 32
             tileCol == (windowX \div 8) % 32
             tileNum == Get(vram, tileMap + tileRow * 32 + tileCol - 32768)
             colorId == GetTilePixel(vram, TileDataAddr(p, tileNum),
                                     windowX % 8, p.windowLine % 8)
         IN  Shr(p.bgp, colorId * 2) % 4

SpriteHeight(p) == IF And(p.lcdc, 4) # 0 THEN 16 ELSE 8

SpriteY(oam, i) == Get(oam, i * 4) - 16

SpriteX(oam, i) == Get(oam, i * 4 + 1) - 8

\* The sprites renderSprites collects for a line: the first ten that cover it.
SpritesOnLine(p, oam, line) ==
    LET covers == {i \in 0 .. 39 :
                     line >= SpriteY(oam, i) /\ line < SpriteY(oam, i) + SpriteHeight(p)}
    IN  {i \in covers : Cardinality({j \in covers : j < i}) < 10}

\* Mutant of SpriteBefore: the sprites are ordered by OAM index alone.
SpriteBefore_ByIndex(oam, i, j) == i < j

\* Sort order of renderSprites: by X, then by OAM index.
SpriteBefore(oam, i, j) ==
    \/ SpriteX(oam, i) < SpriteX(oam, j)
    \/ SpriteX(oam, i) = SpriteX(oam, j) /\ i < j

\* One sprite drawn at pixel x over the current colour `cur`.
SpriteDraw(p, vram, oam, line, x, i, cur) ==
    LET flags == Get(oam, i * 4 + 3)
        palette == IF And(flags, 16) # 0 THEN p.obp1 ELSE p.obp0
        h == SpriteHeight(p)
        tile0 == IF h = 16 THEN And(Get(oam, i * 4 + 2), 254) ELSE Get(oam, i * 4 + 2)
        ty0 == IF And(flags, 64) # 0 THEN h - 1 - (line - SpriteY(oam, i))
               ELSE line - SpriteY(oam, i)
        tileNum == IF ty0 >= 8 THEN tile0 + 1 ELSE tile0
        tileY == IF ty0 >= 8 THEN ty0 - 8 ELSE ty0
        tileX == x - SpriteX(oam, i)
        actualTileX == IF And(flags, 32) # 0 THEN 7 - tileX ELSE tileX
        colorId == GetTilePixel(vram, 32768 + tileNum * 16, actualTileX, tileY)
    IN  IF tileX < 0 \/ tileX >= 8 THEN cur
        ELSE IF colorId = 0 THEN cur
        ELSE IF And(flags, 128) # 0 /\ cur # p.bgp % 4 THEN cur
        ELSE Shr(palette, colorId * 2) % 4

\* renderSprites at pixel x: the collected sprites drawn in reverse sort order.
RECURSIVE SpritePixel(_, _, _, _, _, _, _)
SpritePixel(p, vram, oam, line, x, todo, cur) ==
    IF todo = {} THEN cur
    ELSE LET last == CHOOSE i \in todo : \A j \in todo \ {i} : SpriteBefore(oam, j, i)
         IN  SpritePixel(p, vram, oam, line, x, todo \ {last},
                         SpriteDraw(p, vram, oam, line, x, last, cur))

\* renderScanline at pixel x of line p.ly.
ScanlinePixel(p, vram, oam, x) ==
    LET line == p.ly
        c0 == p.bgp % 4
        c1 == IF And(p.lcdc, 1) # 0 THEN BackgroundPixel(p, vram, line, x) ELSE c0
        c2 == WindowPixel(p, vram, line, x, c1)
    IN  IF And(p.lcdc, 2) # 0
        THEN SpritePixel(p, vram, oam, line, x, SpritesOnLine(p, oam, line), c2)
        ELSE c2

RECURSIVE PutLine(_, _, _, _, _)
PutLine(fb, p, vram, oam, x) ==
    IF x = ViewW THEN fb
    ELSE PutLine(Put(fb, p.ly * ScreenW + x, ScanlinePixel(p, vram, oam, x)),
                 p, vram, oam, x + 1)

RenderScanline(p, vram, oam) ==
    IF p.ly >= ScreenH THEN p
    ELSE [p EXCEPT !.frameBuffer = PutLine(@, p, vram, oam, 0),
                   !.windowLine = IF WindowDrawn(p, p.ly) THEN @ + 1 ELSE @]

RenderFrame(p) == [p EXCEPT !.imageData = [shown |-> TRUE, px |-> p.frameBuffer]]

\* Mutant of RaiseIF: every interrupt request also sets the V-blank bit.
RaiseIF_WithVBlank(S, bits) ==
    [S EXCEPT !.mmu.io = Put(@, 15, Or(Get(@, 15), Or(bits, 1)))]

\* IF |= bits, on the bus's io array.
RaiseIF(S, bits) == [S EXCEPT !.mmu.io = Put(@, 15, Or(Get(@, 15), bits))]

RaiseIfSet(S, cond, bits) == IF cond THEN RaiseIF(S, bits) ELSE S

StatBit(p, mask) == And(p.stat, mask) # 0

\* PPU.step, mode 2 (OAM scan).
PpuStepOam(S, mc) ==
    IF mc >= 80 THEN [S EXCEPT !.ppu.modeCycles = mc - 80, !.ppu.mode = 3]
    ELSE [S EXCEPT !.ppu.modeCycles = mc]

\* PPU.step, mode 3 (pixel transfer): renders the scanline on leaving it.
PpuStepTransfer(S, mc) ==
    IF mc >= 172
    THEN LET p1 == [S.ppu EXCEPT !.modeCycles = mc - 172, !.mode = 0]
             p2 == RenderScanline(p1, S.mmu.vram, S.mmu.oam)
         IN  RaiseIfSet([S EXCEPT !.ppu = p2], StatBit(p2, 8), 2)
    ELSE [S EXCEPT !.ppu.modeCycles = mc]

\* PPU.step, mode 0 (H-blank).
PpuStepHBlank(S, mc) ==
    IF mc >= 204
    THEN LET p1 == [S.ppu EXCEPT !.modeCycles = mc - 204, !.ly = @ + 1]
             S1 == RaiseIfSet([S EXCEPT !.ppu = p1],
                              p1.ly = p1.lyc /\ StatBit(p1, 64), 2)
         IN  IF p1.ly = 144
             THEN LET S2 == RaiseIF([S1 EXCEPT !.ppu.mode = 1], 1)
                      S3 == RaiseIfSet(S2, StatBit(p1, 16), 2)
                  IN  [S3 EXCEPT !.ppu = RenderFrame(@)]
             ELSE RaiseIfSet([S1 EXCEPT !.ppu.mode = 2], StatBit(p1, 32), 2)
    ELSE [S EXCEPT !.ppu.modeCycles = mc]

\* Mutant of PpuStepVBlank: the frame ends after line 152.
PpuStepVBlank_ShortFrame(S, mc) ==
    IF mc >= 456
    THEN LET p1 == [S.ppu EXCEPT !.modeCycles = mc - 456, !.ly = @ + 1]
             S1 == RaiseIfSet([S EXCEPT !.ppu = p1],
                              p1.ly = p1.lyc /\ StatBit(p1, 64), 2)
         IN  IF p1.ly > 152
             THEN LET S2 == [S1 EXCEPT !.ppu.ly = 0, !.ppu.windowLine = 0,
                                       !.ppu.mode = 2]
                      S3 == RaiseIfSet(S2, StatBit(p1, 32), 2)
                  IN  RaiseIfSet(S3, p1.lyc = 0 /\ StatBit(p1, 64), 2)
             ELSE S1
    ELSE [S EXCEPT !.ppu.modeCycles = mc]

\* PPU.step, mode 1 (V-blank).
PpuStepVBlank(S, mc) ==
    IF mc >= 456
    THEN LET p1 == [S.ppu EXCEPT !.modeCycles = mc - 456, !.ly = @ + 1]
             S1 == RaiseIfSet([S EXCEPT !.ppu = p1],
                              p1.ly = p1.lyc /\ StatBit(p1, 64), 2)
         IN  IF p1.ly > 153
             THEN LET S2 == [S1 EXCEPT !.ppu.ly = 0, !.ppu.windowLine = 0,
                                       !.ppu.mode = 2]
                      S3 == RaiseIfSet(S2, StatBit(p1, 32), 2)
                  IN  RaiseIfSet(S3, p1.lyc = 0 /\ StatBit(p1, 64), 2)
             ELSE S1
    ELSE [S EXCEPT !.ppu.modeCycles = mc]

\* PPU.step(cycles).
PpuStep(S, cycles) ==
    IF And(S.ppu.lcdc, 128) = 0 THEN S
    ELSE LET mc == S.ppu.modeCycles + cycles
         IN  CASE S.ppu.mode = 2 -> PpuStepOam(S, mc)
               [] S.ppu.mode = 3 -> PpuStepTransfer(S, mc)
               [] S.ppu.mode = 0 -> PpuStepHBlank(S, mc)
               [] S.ppu.mode = 1 -> PpuStepVBlank(S, mc)
               [] OTHER -> [S EXCEPT !.ppu.modeCycles = mc]

\* Mutant of PpuFrameComplete: the frame is reported one line early.
PpuFrameComplete_Line143(S, cycles) ==
    /\ And(S.ppu.lcdc, 128) # 0
    /\ S.ppu.mode = 0
    /\ S.ppu.modeCycles + cycles >= 204
    /\ S.ppu.ly + 1 = 143

\* The value PPU.step returns: whether a frame was completed.
PpuFrameComplete(S, cycles) ==
    /\ And(S.ppu.lcdc, 128) # 0
    /\ S.ppu.mode = 0
    /\ S.ppu.modeCycles + cycles >= 204
    /\ S.ppu.ly + 1 = 144

(***************************************************************************)
(* Sound unit.  The sample ring holds 2 * RingSlots floats (16384 in the   *)
(* program).  The host audio context runs at the default 44100 Hz, so one  *)
(* sample takes 4194304 / 44100 = 1048576 / 11025 cycles: sampleCycles and *)
(* the channel timers, which the program keeps as floats, are kept in      *)
(* units of 1 / 11025 cycle.  A mixed sample (sum / 60) * ((vol + 1) / 8)  *)
(* is kept as its numerator sum * (vol + 1) over 480.                      *)
(***************************************************************************)
RingSlots == 4

OutFrames == 2

BufLen == 2 * RingSlots

TimeDen == 11025

CyclesPerSample == 1048576

Ch1New ==
    [enabled |-> FALSE, dacEnabled |-> FALSE, sweepPeriod |-> 0, sweepNegate |-> FALSE,
     sweepShift |-> 0, sweepTimer |-> 0, sweepEnabled |-> FALSE, sweepShadow |-> 0,
     duty |-> 0, lengthCounter |-> 0, lengthEnabled |-> FALSE, envInitial |-> 0,
     envDirection |-> FALSE, envPeriod |-> 0, envTimer |-> 0, envVolume |-> 0,
     frequency |-> 0, timer |-> 0, dutyPos |-> 0, output |-> 0]

Ch2New ==
    [enabled |-> FALSE, dacEnabled |-> FALSE, duty |-> 0, lengthCounter |-> 0,
     lengthEnabled |-> FALSE, envInitial |-> 0, envDirection |-> FALSE,
     envPeriod |-> 0, envTimer |-> 0, envVolume |-> 0, frequency |-> 0,
     timer |-> 0, dutyPos |-> 0, output |-> 0]

Ch3New ==
    [enabled |-> FALSE, dacEnabled |-> FALSE, lengthCounter |-> 0,
     lengthEnabled |-> FALSE, volumeCode |-> 0, frequency |-> 0, timer |-> 0,
     wavePos |-> 0, output |-> 0]

Ch4New ==
    [enabled |-> FALSE, dacEnabled |-> FALSE, lengthCounter |-> 0,
     lengthEnabled |-> FALSE, envInitial |-> 0, envDirection |-> FALSE,
     envPeriod |-> 0, envTimer |-> 0, envVolume |-> 0, clockShift |-> 0,
     widthMode |-> FALSE, divisorCode |-> 0, timer |-> 0, lfsr |-> 32767,
     output |-> 0]

ApuNew ==
    [enabled |-> FALSE, initialized |-> FALSE, sampleBuffer |-> Zeros,
     bufferWritePos |-> 0, bufferReadPos |-> 0, frameSequencerCycles |-> 0,
     frameSequencerStep |-> 0, sampleCycles |-> 0, masterEnable |-> TRUE,
     masterVolLeft |-> 7, masterVolRight |-> 7,
     ch1Left |-> TRUE, ch1Right |-> TRUE, ch2Left |-> TRUE, ch2Right |-> TRUE,
     ch3Left |-> TRUE, ch3Right |-> TRUE, ch4Left |-> TRUE, ch4Right |-> TRUE,
     ch1 |-> Ch1New, ch2 |-> Ch2New, ch3 |-> Ch3New, ch4 |-> Ch4New,
     waveRam |-> Zeros, debugAudioCount |-> 0]

DutyPatterns ==
    << <<0, 0, 0, 0, 0, 0, 0, 1>>, <<1, 0, 0, 0, 0, 0, 0, 1>>,
       <<1, 0, 0, 0, 0, 1, 1, 1>>, <<0, 1, 1, 1, 1, 1, 1, 0>> >>

NoiseDivisors == <<8, 16, 32, 48, 64, 80, 96, 112>>

VolumeShifts == <<4, 0, 1, 2>>

\* APU.init on a host whose audio context can be created.
ApuInit(a) ==
    IF a.initialized THEN a ELSE [a EXCEPT !.initialized = TRUE, !.enabled = TRUE]

ApuReset(a) ==
    [a EXCEPT !.frameSequencerCycles = 0, !.frameSequencerStep = 0,
              !.sampleCycles = 0, !.bufferWritePos = 0, !.bufferReadPos = 0,
              !.sampleBuffer = Zeros, !.ch1.enabled = FALSE, !.ch2.enabled = FALSE,
              !.ch3.enabled = FALSE, !.ch4.enabled = FALSE, !.waveRam = Zeros]

ApuSetEnabled(a, on) ==
    IF on THEN [a EXCEPT !.enabled = TRUE]
    ELSE [a EXCEPT !.enabled = FALSE, !.bufferWritePos = 0, !.bufferReadPos = 0,
                   !.sampleBuffer = Zeros]

\* One channel's part of clockLength.
LengthClocked(ch) ==
    IF ch.lengthEnabled /\ ch.lengthCounter > 0
    THEN [ch EXCEPT !.lengthCounter = @ - 1,
                    !.enabled = IF ch.lengthCounter - 1 = 0 THEN FALSE ELSE @]
    ELSE ch

ClockLength(a) ==
    [a EXCEPT !.ch1 = LengthClocked(@), !.ch2 = LengthClocked(@),
              !.ch3 = LengthClocked(@), !.ch4 = LengthClocked(@)]

\* One channel's part of clockEnvelope.
EnvelopeClocked(ch) ==
    IF ch.envPeriod > 0
    THEN IF ch.envTimer - 1 <= 0
         THEN [ch EXCEPT !.envTimer = ch.envPeriod,
                         !.envVolume = IF ch.envDirection /\ @ < 15 THEN @ + 1
                                       ELSE IF ~ch.envDirection /\ @ > 0 THEN @ - 1
                                       ELSE @]
         ELSE [ch EXCEPT !.envTimer = @ - 1]
    ELSE ch

ClockEnvelope(a) ==
    [a EXCEPT !.ch1 = EnvelopeClocked(@), !.ch2 = EnvelopeClocked(@),
              !.ch4 = EnvelopeClocked(@)]

SweepFreq(c) ==
    IF c.sweepNegate THEN c.sweepShadow - Shr(c.sweepShadow, c.sweepShift)
    ELSE c.sweepShadow + Shr(c.sweepShadow, c.sweepShift)

\* calculateSweep: the channel after the overflow check.
\* Mutant of CalculateSweep: the overflow check never disables the channel.
CalculateSweep_NoOverflow(c) == c

CalculateSweep(c) == IF SweepFreq(c) > 2047 THEN [c EXCEPT !.enabled = FALSE] ELSE c

ClockSweep(a) ==
    LET c0 == a.ch1
        t == IF c0.sweepTimer > 0 THEN c0.sweepTimer - 1 ELSE c0.sweepTimer
        c1 == [c0 EXCEPT !.sweepTimer = t]
    IN  IF t # 0 THEN [a EXCEPT !.ch1 = c1]
        ELSE LET c2 == [c1 EXCEPT !.sweepTimer =
                                     IF c1.sweepPeriod # 0 THEN c1.sweepPeriod ELSE 8]
             IN  IF c2.sweepEnabled /\ c2.sweepPeriod > 0
                 THEN LET newFreq == SweepFreq(c2)
                          c3 == CalculateSweep(c2)
                      IN  IF newFreq <= 2047 /\ c3.sweepShift > 0
                          THEN [a EXCEPT !.ch1 =
                                  CalculateSweep([c3 EXCEPT !.frequency = newFreq,
                                                            !.sweepShadow = newFreq])]
                          ELSE [a EXCEPT !.ch1 = c3]
                 ELSE [a EXCEPT !.ch1 = c2]

\* Mutant of ClockFrameSequencer: the sweep is clocked on every even step.
ClockFrameSequencer_SweepOnEven(a) ==
    LET st == a.frameSequencerStep
        a1 == IF st % 2 = 0 THEN ClockLength(a) ELSE a
        a2 == IF st = 7 THEN ClockEnvelope(a1) ELSE a1
        a3 == IF st % 2 = 0 THEN ClockSweep(a2) ELSE a2
    IN  [a3 EXCEPT !.frameSequencerStep = (st + 1) % 8]

ClockFrameSequencer(a) ==
    LET st == a.frameSequencerStep
        a1 == IF st % 2 = 0 THEN ClockLength(a) ELSE a
        a2 == IF st = 7 THEN ClockEnvelope(a1) ELSE a1
        a3 == IF st = 2 \/ st = 6 THEN ClockSweep(a2) ELSE a2
    IN  [a3 EXCEPT !.frameSequencerStep = (st + 1) % 8]

RECURSIVE FrameSequencerLoop(_)
FrameSequencerLoop(a) ==
    IF a.frameSequencerCycles >= 8192
    THEN FrameSequencerLoop(
             ClockFrameSequencer([a EXCEPT !.frameSequencerCycles = @ - 8192]))
    ELSE a

\* The reload loop of a channel timer: after timer -= one sample period, the
\* number of times `while (timer <= 0) timer += period` runs.
Reloads(t, period) ==
    IF t - CyclesPerSample > 0 THEN 0
    ELSE (CyclesPerSample - t) \div period + 1

Silent(ch) == ~ch.enabled \/ ~ch.dacEnabled

ClockChannel1(c) ==
    IF Silent(c) THEN [c EXCEPT !.output = 0]
    ELSE LET period == (2048 - c.frequency) * 4 * TimeDen
             k == Reloads(c.timer, period)
             pos == (c.dutyPos + k) % 8
         IN  [c EXCEPT !.timer = c.timer - CyclesPerSample + k * period,
                       !.dutyPos = pos,
                       !.output = DutyPatterns[c.duty + 1][pos + 1] * c.envVolume]

ClockChannel2(c) == ClockChannel1(c)

ClockChannel3(c, waveRam) ==
    IF Silent(c) THEN [c EXCEPT !.output = 0]
    ELSE LET period == (2048 - c.frequency) * 2 * TimeDen
             k == Reloads(c.timer, period)
             pos == (c.wavePos + k) % 32
             byte == Get(waveRam, pos \div 2)
             sample == IF pos % 2 = 0 THEN Shr(byte, 4) % 16 ELSE byte % 16
         IN  [c EXCEPT !.timer = c.timer - CyclesPerSample + k * period,
                       !.wavePos = pos,
                       !.output = Shr(sample, VolumeShifts[c.volumeCode + 1])]

\* One clock of the noise LFSR.
LfsrClock(lfsr, widthMode) ==
    LET x == ((lfsr % 2) + Bit(lfsr, 1)) % 2
        l1 == Or(Shr(lfsr, 1), Shl(x, 14))
    IN  IF widthMode THEN Or(AndNot(l1, 64), Shl(x, 6)) ELSE l1

RECURSIVE LfsrClocks(_, _, _)
LfsrClocks(lfsr, widthMode, k) ==
    IF k = 0 THEN lfsr ELSE LfsrClocks(LfsrClock(lfsr, widthMode), widthMode, k - 1)

ClockChannel4(c) ==
    IF Silent(c) THEN [c EXCEPT !.output = 0]
    ELSE LET period == Shl(NoiseDivisors[c.divisorCode + 1], c.clockShift) * TimeDen
             k == Reloads(c.timer, period)
             l == LfsrClocks(c.lfsr, c.widthMode, k)
         IN  [c EXCEPT !.timer = c.timer - CyclesPerSample + k * period,
                       !.lfsr = l,
                       !.output = IF l % 2 = 1 THEN 0 ELSE c.envVolume]

\* mixChannels: <<left, right>>, each the numerator over 480.
MixChannels(a) ==
    LET on(flag, ch) == IF flag THEN ch.output ELSE 0
        left == on(a.ch1Left, a.ch1) + on(a.ch2Left, a.ch2)
                + on(a.ch3Left, a.ch3) + on(a.ch4Left, a.ch4)
        right == on(a.ch1Right, a.ch1) + on(a.ch2Right, a.ch2)
                 + on(a.ch3Right, a.ch3) + on(a.ch4Right, a.ch4)
    IN  <<left * (a.masterVolLeft + 1), right * (a.masterVolRight + 1)>>

\* The ring buffer write of APU.step.
BufferSample(a) ==
    LET mix == MixChannels(a)
        buf1 == Put(a.sampleBuffer, a.bufferWritePos, mix[1])
        buf2 == Put(buf1, (a.bufferWritePos + 1) % BufLen, mix[2])
    IN  [a EXCEPT !.sampleBuffer = buf2,
                  !.bufferWritePos = (a.bufferWritePos + 2) % BufLen]

\* One pass of the sample loop of APU.step.
GenerateSample(a) ==
    LET a1 == [a EXCEPT !.sampleCycles = @ - CyclesPerSample,
                        !.ch1 = ClockChannel1(@), !.ch2 = ClockChannel2(@),
                        !.ch3 = ClockChannel3(@, a.waveRam), !.ch4 = ClockChannel4(@)]
    IN  IF a1.enabled /\ a1.initialized THEN BufferSample(a1) ELSE a1

RECURSIVE SampleLoop(_)
SampleLoop(a) ==
    IF a.sampleCycles >= CyclesPerSample THEN SampleLoop(GenerateSample(a)) ELSE a

\* APU.step(cycles).
ApuStep(a, cycles) ==
    IF ~a.masterEnable THEN a
    ELSE LET a1 == FrameSequencerLoop([a EXCEPT !.frameSequencerCycles = @ + cycles])
         IN  SampleLoop([a1 EXCEPT !.sampleCycles = @ + cycles * TimeDen])

\* The number of samples one APU.step(cycles) generates.
SamplesIn(a, cycles) ==
    IF ~a.masterEnable THEN 0 ELSE (a.sampleCycles + cycles * TimeDen) \div CyclesPerSample

\* getBufferedSamples.
GetBufferedSamples(a) ==
    IF a.bufferWritePos - a.bufferReadPos < 0
    THEN a.bufferWritePos - a.bufferReadPos + BufLen
    ELSE a.bufferWritePos - a.bufferReadPos

\* Mutant of AudioFrame: the consumer reads without comparing the indices.
AudioFrame_Unchecked(a) ==
    <<[a EXCEPT !.bufferReadPos = (a.bufferReadPos + 2) % BufLen],
      <<Get(a.sampleBuffer, a.bufferReadPos),
        Get(a.sampleBuffer, (a.bufferReadPos + 1) % BufLen)>>,
      1>>

\* One output frame of processAudio: <<apu, <<left, right>>, taken>>.
AudioFrame(a) ==
    IF a.bufferReadPos # a.bufferWritePos
    THEN <<[a EXCEPT !.bufferReadPos = (a.bufferReadPos + 2) % BufLen],
           <<Get(a.sampleBuffer, a.bufferReadPos),
             Get(a.sampleBuffer, (a.bufferReadPos + 1) % BufLen)>>,
           1>>
    ELSE <<a, <<0, 0>>, 0>>

\* processAudio: fills OutFrames output frames.
\* Yields <<apu, output frames, number of samples taken from the ring>>.
RECURSIVE AudioLoop(_, _, _, _)
AudioLoop(a, out, taken, i) ==
    IF i = OutFrames THEN <<a, out, taken>>
    ELSE LET f == AudioFrame(a)
         IN  AudioLoop(f[1], Append(out, f[2]), taken + f[3], i + 1)

ProcessAudio(a) ==
    AudioLoop([a EXCEPT !.debugAudioCount = IF @ < 5 THEN @ + 1 ELSE @], <<>>, 0, 0)

Flag(b, mask) == IF b THEN mask ELSE 0

EnvRegister(c) == Or(Or(Shl(c.envInitial, 4), Flag(c.envDirection, 8)), c.envPeriod)

\* APU.readRegister(addr).
ApuReadRegister(a, addr) ==
    CASE addr = 65296 -> Or(Or(Or(128, Shl(a.ch1.sweepPeriod, 4)),
                               Flag(a.ch1.sweepNegate, 8)), a.ch1.sweepShift)
      [] addr = 65297 -> Or(Shl(a.ch1.duty, 6), 63)
      [] addr = 65298 -> EnvRegister(a.ch1)
      [] addr = 65299 -> 255
      [] addr = 65300 -> Or(Flag(a.ch1.lengthEnabled, 64), 191)
      [] addr = 65302 -> Or(Shl(a.ch2.duty, 6), 63)
      [] addr = 65303 -> EnvRegister(a.ch2)
      [] addr = 65304 -> 255
      [] addr = 65305 -> Or(Flag(a.ch2.lengthEnabled, 64), 191)
      [] addr = 65306 -> Or(Flag(a.ch3.dacEnabled, 128), 127)
      [] addr = 65307 -> 255
      [] addr = 65308 -> Or(Shl(a.ch3.volumeCode, 5), 159)
      [] addr = 65309 -> 255
      [] addr = 65310 -> Or(Flag(a.ch3.lengthEnabled, 64), 191)
      [] addr = 65312 -> 255
      [] addr = 65313 -> EnvRegister(a.ch4)
      [] addr = 65314 -> Or(Or(Shl(a.ch4.clockShift, 4), Flag(a.ch4.widthMode, 8)),
                            a.ch4.divisorCode)
      [] addr = 65315 -> Or(Flag(a.ch4.lengthEnabled, 64), 191)
      [] addr = 65316 -> Or(Or(Shl(a.masterVolLeft, 4), a.masterVolRight), 136)
      [] addr = 65317 -> Flag(a.ch4Left, 128) + Flag(a.ch3Left, 64) + Flag(a.ch2Left, 32)
                         + Flag(a.ch1Left, 16) + Flag(a.ch4Right, 8)
                         + Flag(a.ch3Right, 4) + Flag(a.ch2Right, 2)
                         + Flag(a.ch1Right, 1)
      [] addr = 65318 -> Flag(a.masterEnable, 128) + 112 + Flag(a.ch4.enabled, 8)
                         + Flag(a.ch3.enabled, 4) + Flag(a.ch2.enabled, 2)
                         + Flag(a.ch1.enabled, 1)
      [] OTHER -> IF addr >= 65328 /\ addr <= 65343 THEN Get(a.waveRam, addr - 65328)
                  ELSE 255

\* The envelope register write shared by NR12, NR22 and NR42.
\* Mutant of EnvWritten: turning the DAC off leaves the channel enabled.
EnvWritten_KeepEnabled(c, value) ==
    [c EXCEPT !.envInitial = Shr(value, 4) % 16,
              !.envDirection = And(value, 8) # 0,
              !.envPeriod = value % 8,
              !.dacEnabled = And(value, 248) # 0]

EnvWritten(c, value) ==
    [c EXCEPT !.envInitial = Shr(value, 4) % 16,
              !.envDirection = And(value, 8) # 0,
              !.envPeriod = value % 8,
              !.dacEnabled = And(value, 248) # 0,
              !.enabled = IF And(value, 248) # 0 THEN @ ELSE FALSE]

FreqLow(c, value) == [c EXCEPT !.frequency = Or(And(@, 1792), value)]

FreqHigh(c, value) ==
    [c EXCEPT !.frequency = Or(And(@, 255), Shl(value % 8, 8)),
              !.lengthEnabled = And(value, 64) # 0]

\* The trigger part shared by the two square channels (NR14, NR24).
SquareTriggered(c) ==
    [c EXCEPT !.enabled = c.dacEnabled,
              !.lengthCounter = IF @ = 0 THEN 64 ELSE @,
              !.timer = (2048 - c.frequency) * 4 * TimeDen,
              !.envVolume = c.envInitial,
              !.envTimer = c.envPeriod]

Ch1Triggered(c) ==
    LET c1 == [SquareTriggered(c) EXCEPT
                   !.sweepShadow = c.frequency,
                   !.sweepTimer = IF c.sweepPeriod # 0 THEN c.sweepPeriod ELSE 8,
                   !.sweepEnabled = c.sweepPeriod > 0 \/ c.sweepShift > 0]
    IN  IF c1.sweepShift > 0 THEN CalculateSweep(c1) ELSE c1

Ch3Triggered(c) ==
    [c EXCEPT !.enabled = c.dacEnabled,
              !.lengthCounter = IF @ = 0 THEN 256 ELSE @,
              !.timer = (2048 - c.frequency) * 2 * TimeDen,
              !.wavePos = 0]

Ch4Triggered(c) ==
    [c EXCEPT !.enabled = c.dacEnabled,
              !.lengthCounter = IF @ = 0 THEN 64 ELSE @,
              !.timer = Shl(NoiseDivisors[c.divisorCode + 1], c.clockShift) * TimeDen,
              !.envVolume = c.envInitial,
              !.envTimer = c.envPeriod,
              !.lfsr = 32767]

\* Mutant of WriteIgnored: register writes are taken with the sound unit off.
WriteIgnored_Never(a, addr) == FALSE

\* The writes APU.writeRegister ignores: with the master enable clear, all but
\* NR52 and wave RAM.
WriteIgnored(a, addr) == ~a.masterEnable /\ addr # 65318 /\ addr < 65328

\* APU.writeRegister(addr, value).
ApuWriteRegister(a, addr, value) ==
    IF WriteIgnored(a, addr) THEN a
    ELSE
    CASE addr = 65296 -> [a EXCEPT !.ch1.sweepPeriod = Shr(value, 4) % 8,
                                   !.ch1.sweepNegate = And(value, 8) # 0,
                                   !.ch1.sweepShift = value % 8]
      [] addr = 65297 -> [a EXCEPT !.ch1.duty = Shr(value, 6) % 4,
                                   !.ch1.lengthCounter = 64 - (value % 64)]
      [] addr = 65298 -> [a EXCEPT !.ch1 = EnvWritten(@, value)]
      [] addr = 65299 -> [a EXCEPT !.ch1 = FreqLow(@, value)]
      [] addr = 65300 ->
            LET c == FreqHigh(a.ch1, value)
            IN  [a EXCEPT !.ch1 = IF And(value, 128) # 0 THEN Ch1Triggered(c) ELSE c]
      [] addr = 65302 -> [a EXCEPT !.ch2.duty = Shr(value, 6) % 4,
                                   !.ch2.lengthCounter = 64 - (value % 64)]
      [] addr = 65303 -> [a EXCEPT !.ch2 = EnvWritten(@, value)]
      [] addr = 65304 -> [a EXCEPT !.ch2 = FreqLow(@, value)]
      [] addr = 65305 ->
            LET c == FreqHigh(a.ch2, value)
            IN  [a EXCEPT !.ch2 = IF And(value, 128) # 0 THEN SquareTriggered(c) ELSE c]
      [] addr = 65306 -> [a EXCEPT !.ch3.dacEnabled = And(value, 128) # 0,
                                   !.ch3.enabled = IF And(value, 128) # 0 THEN @
                                                   ELSE FALSE]
      [] addr = 65307 -> [a EXCEPT !.ch3.lengthCounter = 256 - value]
      [] addr = 65308 -> [a EXCEPT !.ch3.volumeCode = Shr(value, 5) % 4]
      [] addr = 65309 -> [a EXCEPT !.ch3 = FreqLow(@, value)]
      [] addr = 65310 ->
            LET c == FreqHigh(a.ch3, value)
            IN  [a EXCEPT !.ch3 = IF And(value, 128) # 0 THEN Ch3Triggered(c) ELSE c]
      [] addr = 65312 -> [a EXCEPT !.ch4.lengthCounter = 64 - (value % 64)]
      [] addr = 65313 -> [a EXCEPT !.ch4 = EnvWritten(@, value)]
      [] addr = 65314 -> [a EXCEPT !.ch4.clockShift = Shr(value, 4) % 16,
                                   !.ch4.widthMode = And(value, 8) # 0,
                                   !.ch4.divisorCode = value % 8]
      [] addr = 65315 ->
            LET c == [a.ch4 EXCEPT !.lengthEnabled = And(value, 64) # 0]
            IN  [a EXCEPT !.ch4 = IF And(value, 128) # 0 THEN Ch4Triggered(c) ELSE c]
      [] addr = 65316 -> [a EXCEPT !.masterVolLeft = Shr(value, 4) % 8,
                                   !.masterVolRight = value % 8]
      [] addr = 65317 -> [a EXCEPT !.ch4Left = And(value, 128) # 0,
                                   !.ch3Left = And(value, 64) # 0,
                                   !.ch2Left = And(value, 32) # 0,
                                   !.ch1Left = And(value, 16) # 0,
                                   !.ch4Right = And(value, 8) # 0,
                                   !.ch3Right = And(value, 4) # 0,
                                   !.ch2Right = And(value, 2) # 0,
                                   !.ch1Right = And(value, 1) # 0]
      [] addr = 65318 ->
            IF a.masterEnable /\ And(value, 128) = 0
            THEN [a EXCEPT !.masterEnable = FALSE, !.ch1.enabled = FALSE,
                           !.ch2.enabled = FALSE, !.ch3.enabled = FALSE,
                           !.ch4.enabled = FALSE]
            ELSE [a EXCEPT !.masterEnable = And(value, 128) # 0]
      [] OTHER -> IF addr >= 65328 /\ addr <= 65343
                  THEN [a EXCEPT !.waveRam = Put(@, addr - 65328, value)]
                  ELSE a

(***************************************************************************)
(* Memory bus with the MBC1 / MBC3 / MBC5 bank controllers.  The bus       *)
(* dispatches I/O registers to the devices, so its operations act on the   *)
(* whole machine S = [mmu, cpu, ppu, timer, input, apu].                   *)
(***************************************************************************)
RtcZero == [seconds |-> 0, minutes |-> 0, hours |-> 0, daysLow |-> 0, daysHigh |-> 0]

IoBoot ==
    (0 :> 207) @@ (1 :> 0) @@ (2 :> 126) @@ (4 :> 171) @@ (5 :> 0) @@ (6 :> 0)
    @@ (7 :> 248) @@ (15 :> 225) @@ (16 :> 128) @@ (17 :> 191) @@ (18 :> 243)
    @@ (19 :> 255) @@ (20 :> 191) @@ (22 :> 63) @@ (23 :> 0) @@ (24 :> 255)
    @@ (25 :> 191) @@ (26 :> 127) @@ (27 :> 255) @@ (28 :> 159) @@ (29 :> 255)
    @@ (30 :> 191) @@ (32 :> 255) @@ (33 :> 0) @@ (34 :> 0) @@ (35 :> 191)
    @@ (36 :> 119) @@ (37 :> 243) @@ (38 :> 241) @@ (64 :> 145) @@ (65 :> 133)
    @@ (66 :> 0) @@ (67 :> 0) @@ (68 :> 0) @@ (69 :> 0) @@ (70 :> 255)
    @@ (71 :> 252) @@ (72 :> 255) @@ (73 :> 255) @@ (74 :> 0) @@ (75 :> 0)

\* MMU.initIO: the listed registers get their boot values, the rest stay.
InitIO(io) ==
    LET val(r) == IF r \in DOMAIN IoBoot THEN IoBoot[r] ELSE Get(io, r)
    IN  [r \in {x \in 0 .. 127 : val(x) # 0} |-> val(r)]

\* MMU.reset, which the constructor runs.
MmuReset ==
    [rom |-> NoRom, romBanks |-> 0, vram |-> Zeros, eram |-> Zeros, wram |-> Zeros,
     oam |-> Zeros, hram |-> Zeros, io |-> InitIO(Zeros), ie |-> 0,
     mbcType |-> 0, romBank |-> 1, romBankHigh |-> 0, ramBank |-> 0,
     ramEnabled |-> FALSE, mbcMode |-> 0, rtcLatched |-> FALSE,
     rtcLatchPrepare |-> FALSE, rtc |-> RtcZero, rtcLatchedData |-> RtcZero,
     hasRTC |-> FALSE, ramSize |-> 0]

RamSizes == <<0, 0, 8192, 32768, 131072, 65536>>

MbcTypeOf(cartType) ==
    IF cartType >= 1 /\ cartType <= 3 THEN 1
    ELSE IF cartType >= 15 /\ cartType <= 19 THEN 3
    ELSE IF cartType >= 25 /\ cartType <= 30 THEN 5
    ELSE 0

\* MMU.loadROM(data).
MmuLoadROM(m, data) ==
    LET cartType == RomData(data, 327)
        ramCode == RomData(data, 329)
    IN  [m EXCEPT !.rom = data,
                  !.mbcType = MbcTypeOf(cartType),
                  !.hasRTC = IF MbcTypeOf(cartType) = 3
                             THEN cartType = 15 \/ cartType = 16 ELSE @,
                  !.romBanks = Shl(2, RomData(data, 328)),
                  !.ramSize = IF ramCode < Len(RamSizes) THEN RamSizes[ramCode + 1]
                              ELSE 0]

\* rom[romAddr], or 0xFF past the end of the image.
RomByte(m, romAddr) == IF romAddr < m.rom.length THEN RomData(m.rom, romAddr) ELSE 255

\* Mutant of Bank0: the fixed bank is bank 0 in both modes.
Bank0_Fixed(m) == 0

\* The bank MMU.read uses for 0x0000-0x3FFF.
Bank0(m) ==
    IF m.mbcType = 1 /\ m.mbcMode = 1 THEN Shl(m.ramBank, 5) % m.romBanks ELSE 0

\* Mutant of SwitchableBank: the RAM bank register is not part of the bank.
SwitchableBank_LowOnly(m) == m.romBank % m.romBanks

\* The bank MMU.read uses for 0x4000-0x7FFF.
SwitchableBank(m) ==
    IF m.mbcType = 1 THEN Or(Shl(m.ramBank, 5), m.romBank) % m.romBanks
    ELSE IF m.mbcType = 5 THEN Or(Shl(m.romBankHigh, 8), m.romBank) % m.romBanks
    ELSE m.romBank

RtcSelected(m) == m.mbcType = 3 /\ m.ramBank >= 8 /\ m.ramBank <= 12

RtcField(r, sel) ==
    CASE sel = 8 -> r.seconds
      [] sel = 9 -> r.minutes
      [] sel = 10 -> r.hours
      [] sel = 11 -> r.daysLow
      [] sel = 12 -> r.daysHigh

\* The external RAM offset MMU.read and MMU.write compute.
RamAddr(m, addr) ==
    IF m.mbcType = 1
    THEN IF m.mbcMode = 1 THEN m.ramBank * 8192 + (addr - 40960) ELSE addr - 40960
    ELSE m.ramBank * 8192 + (addr - 40960)

EramLength == 131072

\* MMU.readIO(addr).
MmuReadIO(S, addr) ==
    LET reg == addr % 128
    IN  CASE addr = 65280 -> InputRead(S.input)
          [] addr = 65284 -> S.timer.div
          [] addr = 65285 -> S.timer.tima
          [] addr = 65286 -> S.timer.tma
          [] addr = 65287 -> Or(S.timer.tac, 248)
          [] addr = 65295 -> Or(Get(S.mmu.io, reg), 224)
          [] addr \in (65344 .. 65349) \cup (65351 .. 65355) ->
                PpuReadRegister(S.ppu, addr)
          [] OTHER -> IF addr >= 65296 /\ addr <= 65343
                      THEN ApuReadRegister(S.apu, addr)
                      ELSE Get(S.mmu.io, reg)

\* Mutant of WramIndex: the echo region is not mirrored onto work RAM.
WramIndex_NoEcho(addr) == addr - 49152

\* The work RAM cell MMU.read uses for 0xC000-0xDFFF and its echo 0xE000-0xFDFF.
WramIndex(addr) == IF addr < 57344 THEN addr - 49152 ELSE addr - 57344

\* MMU.read(addr).
MmuRead(S, address) ==
    LET m == S.mmu
        addr == address % 65536
    IN  IF addr < 16384
        THEN IF m.rom = NoRom THEN 255 ELSE RomByte(m, Bank0(m) * BankSize + addr)
        ELSE IF addr < 32768
        THEN IF m.rom = NoRom THEN 255
             ELSE RomByte(m, SwitchableBank(m) * BankSize + (addr - 16384))
        ELSE IF addr < 40960 THEN Get(m.vram, addr - 32768)
        ELSE IF addr < 49152
        THEN IF ~m.ramEnabled THEN 255
             ELSE IF RtcSelected(m)
             THEN RtcField(IF m.rtcLatched THEN m.rtcLatchedData ELSE m.rtc, m.ramBank)
             ELSE IF RamAddr(m, addr) < EramLength THEN Get(m.eram, RamAddr(m, addr))
             ELSE 255
        ELSE IF addr < 65024 THEN Get(m.wram, WramIndex(addr))
        ELSE IF addr < 65184 THEN Get(m.oam, addr - 65024)
        ELSE IF addr < 65280 THEN 255
        ELSE IF addr < 65408 THEN MmuReadIO(S, addr)
        ELSE IF addr < 65535 THEN Get(m.hram, addr - 65408)
        ELSE m.ie

\* MMU.dmaTransfer(value).
DmaTransfer(S, value) ==
    LET src(i) == MmuRead(S, Shl(value, 8) + i)
    IN  [S EXCEPT !.mmu.oam = [i \in {x \in 0 .. 159 : src(x) # 0} |-> src(i)]]

\* MMU.writeIO(addr, value).
MmuWriteIO(S, addr, value) ==
    LET reg == addr % 128
        stored(T, v) == [T EXCEPT !.mmu.io = Put(@, reg, v)]
    IN  CASE addr = 65280 -> stored([S EXCEPT !.input = InputWrite(@, value)], value)
          [] addr = 65284 -> stored([S EXCEPT !.timer.div = 0], 0)
          [] addr = 65285 -> stored([S EXCEPT !.timer.tima = value], value)
          [] addr = 65286 -> stored([S EXCEPT !.timer.tma = value], value)
          [] addr = 65287 -> stored([S EXCEPT !.timer.tac = value % 8], value)
          [] addr = 65295 -> stored(S, value % 32)
          [] addr \in 65344 .. 65350 /\ addr # 65348 ->
                LET S1 == IF addr = 65350 THEN DmaTransfer(S, value) ELSE S
                IN  stored([S1 EXCEPT !.ppu = PpuWriteRegister(@, addr, value)], value)
          [] addr \in 65351 .. 65355 ->
                stored([S EXCEPT !.ppu = PpuWriteRegister(@, addr, value)], value)
          [] OTHER ->
                IF addr >= 65296 /\ addr <= 65343
                THEN stored([S EXCEPT !.apu = ApuWriteRegister(@, addr, value)], value)
                ELSE stored(S, value)

\* The RTC register write of MMU.write.
RtcWritten(r, sel, value) ==
    CASE sel = 8 -> [r EXCEPT !.seconds = value % 64]
      [] sel = 9 -> [r EXCEPT !.minutes = value % 64]
      [] sel = 10 -> [r EXCEPT !.hours = value % 32]
      [] sel = 11 -> [r EXCEPT !.daysLow = value]
      [] sel = 12 -> [r EXCEPT !.daysHigh = And(value, 193)]

\* Mutant of ZeroAsOne: the bank select keeps a written 0.
ZeroAsOne_Kept(bank) == bank

\* `if (bank === 0) bank = 1` of the MBC1 and MBC3 bank select.
ZeroAsOne(bank) == IF bank = 0 THEN 1 ELSE bank

\* Mutant of RamEnable: any non-zero value enables external RAM.
RamEnable_NonZero(value) == value # 0

\* `(value & 0x0F) === 0x0A` of the RAM/RTC enable register.
RamEnable(value) == value % 16 = 10

\* Mutant of LatchNow: every write of 0x01 latches.
LatchNow_Unprepared(m, value) == value = 1

\* The MBC3 latch condition of a write to 0x6000-0x7FFF.
LatchNow(m, value) == m.rtcLatchPrepare /\ value = 1

\* The bank register part of MMU.write (addr < 0x8000).
MbcWrite(m, addr, value) ==
    IF addr < 8192 THEN [m EXCEPT !.ramEnabled = RamEnable(value)]
    ELSE IF addr < 16384
    THEN CASE m.mbcType = 1 -> [m EXCEPT !.romBank = ZeroAsOne(value % 32)]
           [] m.mbcType = 3 -> [m EXCEPT !.romBank = ZeroAsOne(value % 128)]
           [] m.mbcType = 5 ->
                IF addr < 12288 THEN [m EXCEPT !.romBank = value]
                ELSE [m EXCEPT !.romBankHigh = value % 2]
           [] OTHER -> m
    ELSE IF addr < 24576
    THEN CASE m.mbcType = 1 -> [m EXCEPT !.ramBank = value % 4]
           [] m.mbcType = 3 ->
                IF value <= 3 \/ (value >= 8 /\ value <= 12)
                THEN [m EXCEPT !.ramBank = value] ELSE m
           [] m.mbcType = 5 -> [m EXCEPT !.ramBank = value % 16]
           [] OTHER -> m
    ELSE CASE m.mbcType = 1 -> [m EXCEPT !.mbcMode = value % 2]
           [] m.mbcType = 3 ->
                [m EXCEPT !.rtcLatchedData = IF LatchNow(m, value) THEN m.rtc ELSE @,
                          !.rtcLatched = IF LatchNow(m, value) THEN TRUE ELSE @,
                          !.rtcLatchPrepare = (value = 0)]
           [] OTHER -> m

\* MMU.write(addr, value).
MmuWrite(S, address, val) ==
    LET m == S.mmu
        addr == address % 65536
        value == val % 256
    IN  IF addr < 32768 THEN [S EXCEPT !.mmu = MbcWrite(m, addr, value)]
        ELSE IF addr < 40960 THEN [S EXCEPT !.mmu.vram = Put(@, addr - 32768, value)]
        ELSE IF addr < 49152
        THEN IF ~m.ramEnabled THEN S
             ELSE IF RtcSelected(m)
             THEN [S EXCEPT !.mmu.rtc = RtcWritten(@, m.ramBank, value)]
             ELSE IF RamAddr(m, addr) < EramLength
             THEN [S EXCEPT !.mmu.eram = Put(@, RamAddr(m, addr), value)]
             ELSE S
        ELSE IF addr < 57344 THEN [S EXCEPT !.mmu.wram = Put(@, addr - 49152, value)]
        ELSE IF addr < 65024 THEN [S EXCEPT !.mmu.wram = Put(@, addr - 57344, value)]
        ELSE IF addr < 65184 THEN [S EXCEPT !.mmu.oam = Put(@, addr - 65024, value)]
        ELSE IF addr < 65280 THEN S
        ELSE IF addr < 65408 THEN MmuWriteIO(S, addr, value)
        ELSE IF addr < 65535 THEN [S EXCEPT !.mmu.hram = Put(@, addr - 65408, value)]
        ELSE [S EXCEPT !.mmu.ie = value]

(***************************************************************************)
(* CPU.  The debug counter cpu.cycles is only ever added to and is left    *)
(* out.  Programs are built from the instructions of Execute; a step whose *)
(* opcode is not one of them is not taken.                                 *)
(***************************************************************************)
CpuReset ==
    [a |-> 1, b |-> 0, c |-> 19, d |-> 0, e |-> 216, h |-> 1, l |-> 77,
     flagZ |-> TRUE, flagN |-> FALSE, flagH |-> TRUE, flagC |-> TRUE,
     sp |-> 65534, pc |-> 256, halted |-> FALSE, ime |-> FALSE,
     imeScheduled |-> FALSE, stopped |-> FALSE]

\* get f().
GetF(c) == Flag(c.flagZ, 128) + Flag(c.flagN, 64) + Flag(c.flagH, 32) + Flag(c.flagC, 16)

\* set f(value).
SetF(c, value) ==
    [c EXCEPT !.flagZ = And(value, 128) # 0, !.flagN = And(value, 64) # 0,
              !.flagH = And(value, 32) # 0, !.flagC = And(value, 16) # 0]

\* Mutant of GetAF: the low nibble of AF follows the carry flag.
GetAF_Raw(c) == Or(Shl(c.a, 8), GetF(c) + Flag(c.flagC, 15))

\* get af().
GetAF(c) == Or(Shl(c.a, 8), GetF(c))

\* set af(value).
SetAF(c, value) == SetF([c EXCEPT !.a = Shr(value, 8) % 256], And(value, 240))

\* fetchByte: the byte at PC; PC moves on by one.
FetchValue(S) == MmuRead(S, S.cpu.pc)

Fetched(S) == [S EXCEPT !.cpu.pc = (@ + 1) % 65536]

\* fetchWord: two fetchByte calls, low byte first.
FetchWordValue(S) == Or(Shl(FetchValue(Fetched(S)), 8), FetchValue(S))

\* CPU.push(value).
Push(S, value) ==
    LET sp1 == (S.cpu.sp - 1) % 65536
        S1 == MmuWrite([S EXCEPT !.cpu.sp = sp1], sp1, Shr(value, 8) % 256)
        sp2 == (sp1 - 1) % 65536
    IN  MmuWrite([S1 EXCEPT !.cpu.sp = sp2], sp2, value % 256)

\* CPU.pop(): the value popped.
PopValue(S) ==
    Or(Shl(MmuRead(S, (S.cpu.sp + 1) % 65536), 8), MmuRead(S, S.cpu.sp))

Popped(S) == [S EXCEPT !.cpu.sp = (@ + 2) % 65536]

\* IE & IF & 0x1F as handleInterrupts computes it.
Pending(S) == And(And(S.mmu.ie, Get(S.mmu.io, 15)), 31)

\* Mutant of LowestBit: the highest pending interrupt is served first.
LowestBit_Highest(p) ==
    CHOOSE b \in 0 .. 4 : Bit(p, b) = 1 /\ \A k \in b + 1 .. 4 : Bit(p, k) = 0

\* The lowest set bit of a non-zero pending mask.
LowestBit(p) == CHOOSE b \in 0 .. 4 : Bit(p, b) = 1 /\ \A k \in 0 .. b - 1 : Bit(p, k) = 0

\* Mutant of HandleInterrupts: a pending interrupt ends HALT only when IME is set.
HandleInterrupts_WakeNeedsIme(S) ==
    IF Pending(S) = 0 \/ ~S.cpu.ime THEN S
    ELSE LET b == LowestBit(Pending(S))
             S2 == Push([S EXCEPT !.cpu.halted = FALSE, !.cpu.ime = FALSE], S.cpu.pc)
         IN  [S2 EXCEPT !.mmu.io = Put(@, 15, AndNot(Get(@, 15), 2 ^ b)),
                        !.cpu.pc = 64 + 8 * b]

\* Mutant of HandleInterrupts: a dispatch clears every request.
HandleInterrupts_ClearsAll(S) ==
    IF Pending(S) = 0 THEN S
    ELSE LET S1 == [S EXCEPT !.cpu.halted = FALSE]
         IN  IF ~S1.cpu.ime THEN S1
             ELSE LET b == LowestBit(Pending(S))
                      S2 == Push([S1 EXCEPT !.cpu.ime = FALSE], S1.cpu.pc)
                  IN  [S2 EXCEPT !.mmu.io = Put(@, 15, 0),
                                 !.cpu.pc = 64 + 8 * b]

\* CPU.handleInterrupts(): the machine afterwards.
HandleInterrupts(S) ==
    IF Pending(S) = 0 THEN S
    ELSE LET S1 == [S EXCEPT !.cpu.halted = FALSE]
         IN  IF ~S1.cpu.ime THEN S1
             ELSE LET b == LowestBit(Pending(S))
                      S2 == Push([S1 EXCEPT !.cpu.ime = FALSE], S1.cpu.pc)
                  IN  [S2 EXCEPT !.mmu.io = Put(@, 15, AndNot(Get(@, 15), 2 ^ b)),
                                 !.cpu.pc = 64 + 8 * b]

\* The cycles handleInterrupts returns.
InterruptCycles(S) == IF Pending(S) # 0 /\ S.cpu.ime THEN 20 ELSE 0

Opcodes == {0, 16, 24, 49, 62, 118, 195, 217, 224, 234, 240, 241, 243, 245, 251}

\* opcodes[opcode](cpu), entered with PC past the opcode byte.
Execute(S, opcode) ==
    CASE opcode = 0 -> S
      [] opcode = 16 -> [Fetched(S) EXCEPT !.cpu.stopped = TRUE]
      [] opcode = 24 ->
            [S EXCEPT !.cpu.pc = (S.cpu.pc + 1 + SignedByte(FetchValue(S))) % 65536]
      [] opcode = 49 -> [S EXCEPT !.cpu.sp = FetchWordValue(S),
                                  !.cpu.pc = (@ + 2) % 65536]
      [] opcode = 62 -> [Fetched(S) EXCEPT !.cpu.a = FetchValue(S)]
      [] opcode = 118 -> [S EXCEPT !.cpu.halted = TRUE]
      [] opcode = 195 -> [S EXCEPT !.cpu.pc = FetchWordValue(S)]
      [] opcode = 217 -> [Popped(S) EXCEPT !.cpu.pc = PopValue(S), !.cpu.ime = TRUE]
      [] opcode = 224 -> MmuWrite(Fetched(S), 65280 + FetchValue(S), S.cpu.a)
      [] opcode = 234 -> MmuWrite(Fetched(Fetched(S)), FetchWordValue(S), S.cpu.a)
      [] opcode = 240 -> [Fetched(S) EXCEPT !.cpu.a = MmuRead(Fetched(S),
                                                              65280 + FetchValue(S))]
      [] opcode = 241 -> [Popped(S) EXCEPT !.cpu = SetAF(@, And(PopValue(S), 65520))]
      [] opcode = 243 -> [S EXCEPT !.cpu.ime = FALSE]
      [] opcode = 245 -> Push(S, GetAF(S.cpu))
      [] opcode = 251 -> [S EXCEPT !.cpu.imeScheduled = TRUE]

ExecuteCycles(opcode) ==
    CASE opcode \in {0, 16, 118, 243, 251} -> 4
      [] opcode = 62 -> 8
      [] opcode \in {24, 49, 224, 240, 241} -> 12
      [] opcode \in {195, 217, 234, 245} -> 16

\* The scheduled IME enable at the head of CPU.step.
ImeApplied(S) ==
    IF S.cpu.imeScheduled
    THEN [S EXCEPT !.cpu.ime = TRUE, !.cpu.imeScheduled = FALSE]
    ELSE S

\* Whether CPU.step reaches the fetch, and the opcode it then fetches.
StepFetches(S) ==
    /\ InterruptCycles(ImeApplied(S)) = 0
    /\ ~HandleInterrupts(ImeApplied(S)).cpu.halted

StepOpcode(S) == FetchValue(HandleInterrupts(ImeApplied(S)))

\* CPU.step() after handleInterrupts has left the machine S1 and returned
\* `served` cycles: the early returns, or the fetch and the instruction.
CpuStepFrom(S1, served) ==
    IF served > 0 \/ S1.cpu.halted THEN S1
    ELSE Execute(Fetched(S1), FetchValue(S1))

\* CPU.step(): the machine afterwards.
CpuStep(S) ==
    CpuStepFrom(HandleInterrupts(ImeApplied(S)), InterruptCycles(ImeApplied(S)))

\* The cycles CPU.step() returns, after handleInterrupts as for CpuStepFrom.
CpuStepCyclesFrom(S1, served) ==
    IF served > 0 THEN 20
    ELSE IF S1.cpu.halted THEN 4
    ELSE ExecuteCycles(FetchValue(S1))

\* The cycles CPU.step() returns.
CpuStepCycles(S) ==
    CpuStepCyclesFrom(HandleInterrupts(ImeApplied(S)), InterruptCycles(ImeApplied(S)))

\* The program at PC is within the modelled instructions.
CanStep(S) == StepFetches(S) => StepOpcode(S) \in Opcodes

(***************************************************************************)
(* Emulator: the machine as constructed, reset, cartridge load and the     *)
(* single-instruction step.  The host clock fields (fps, frame times) do   *)
(* not influence the machine and are left out.                             *)
(***************************************************************************)
Machine ==
    [mmu |-> mmu, cpu |-> cpu, ppu |-> ppu, timer |-> timer, input |-> input,
     apu |-> apu]

Commit(S) ==
    /\ mmu' = S.mmu
    /\ cpu' = S.cpu
    /\ ppu' = S.ppu
    /\ timer' = S.timer
    /\ input' = S.input
    /\ apu' = S.apu

\* new Emulator(ctx).
EmuNew ==
    [mmu |-> MmuReset, cpu |-> CpuReset, ppu |-> PpuNew, timer |-> TimerReset,
     input |-> InputReset, apu |-> ApuNew]

Constructed ==
    /\ mmu = EmuNew.mmu
    /\ cpu = EmuNew.cpu
    /\ ppu = EmuNew.ppu
    /\ timer = EmuNew.timer
    /\ input = EmuNew.input
    /\ apu = EmuNew.apu
    /\ emu = [running |-> FALSE, romLoaded |-> FALSE]

\* Emulator.reset().
EmuReset(S) ==
    [S EXCEPT !.cpu = CpuReset, !.ppu = PpuReset(@), !.timer = TimerReset,
              !.input = InputReset, !.apu = ApuReset(@), !.mmu.io = InitIO(@)]

\* Emulator.loadROM(data).
EmuLoadROM(S, data) == EmuReset([S EXCEPT !.mmu = MmuLoadROM(@, data)])

\* The device part of Emulator.step(): the timer, then the pixel unit.
DevicesStep(M, cycles) == PpuStep(TimerStep(M, cycles), cycles)

\* Emulator.step(): CPU, then timer, then pixel unit.
EmuStep(S) == DevicesStep(CpuStep(S), CpuStepCycles(S))

(***************************************************************************)
(* Bus specification: a cartridge is loaded into a new emulator and the    *)
(* bus is then written and read at will (the accesses a program makes).    *)
(* MaxCells bounds how many RAM cells hold a non-zero byte at a time.      *)
(***************************************************************************)
MaxCells == 1

BusCarts ==
    {Cart(1, 0, 2, TitleA, Zeros), Cart(3, 4, 3, TitleA, Zeros),
     Cart(19, 1, 3, TitleA, Zeros), Cart(27, 2, 3, TitleA, Zeros),
     Cart(0, 0, 0, TitleA, Zeros)}

CtlAddrs == {0, 8192, 12288, 16384, 24576}

CtlVals == {0, 1, 2, 10}

DataAddrs == {32768, 40960, 57344, 65023, 65408, 65534}

DataVals == {0, 255}

ReadAddrs == DataAddrs \cup {0, 16384}

Cells(m) == Dirty(m.vram) + Dirty(m.eram) + Dirty(m.wram) + Dirty(m.oam) + Dirty(m.hram)

InitBus ==
    /\ Constructed
    /\ obs = [op |-> "new", addr |-> 0, value |-> 0]

BusLoadROM ==
    /\ ~emu.romLoaded
    /\ \E data \in BusCarts : Commit(EmuLoadROM(Machine, data))
    /\ emu' = [emu EXCEPT !.romLoaded = TRUE]
    /\ obs' = [op |-> "load", addr |-> 0, value |-> 0]

BusWrite ==
    /\ emu.romLoaded
    /\ \E a \in CtlAddrs \cup DataAddrs :
         \E v \in IF a \in CtlAddrs THEN CtlVals ELSE DataVals :
            LET S == MmuWrite(Machine, a, v)
            IN  /\ Cells(S.mmu) <= MaxCells
                /\ Commit(S)
                /\ obs' = [op |-> "write", addr |-> a, value |-> v]
    /\ UNCHANGED emu

BusRead ==
    /\ emu.romLoaded
    /\ \E a \in ReadAddrs :
         obs' = [op |-> "read", addr |-> a, value |-> MmuRead(Machine, a)]
    /\ UNCHANGED <<mmu, cpu, ppu, timer, input, apu, emu>>

NextBus == BusLoadROM \/ BusWrite \/ BusRead

SpecBus == InitBus /\ [][NextBus]_vars

C10_Range(a) == (a >= 32768 /\ a < 65024) \/ (a >= 65408 /\ a < 65535)

\* C10 as stated: write(A, V) immediately followed by read(A) returns V for
\* every A in [0x8000, 0xFE00) or [0xFF80, 0xFFFF), in any bus state.
C10_WriteReadBack ==
    (obs.op = "write" /\ C10_Range(obs.addr)) => MmuRead(Machine, obs.addr) = obs.value

\* C10, amended: the read returns V for A in [0x8000, 0xA000), [0xC000, 0xFE00)
\* and [0xFF80, 0xFFFF); for A in [0xA000, 0xC000) it returns V when external
\* RAM is enabled and no MBC3 clock register is selected, 0xFF when external
\* RAM is disabled, and V masked to the register's width when an MBC3 clock
\* register is selected and the clock is not latched.
C10_WriteReadBackAmended ==
    (obs.op = "write" /\ C10_Range(obs.addr)) =>
        IF obs.addr >= 40960 /\ obs.addr < 49152
        THEN IF ~mmu.ramEnabled THEN MmuRead(Machine, obs.addr) = 255
             ELSE IF RtcSelected(mmu)
             THEN mmu.rtcLatched \/
                  MmuRead(Machine, obs.addr) = And(obs.value,
                      CASE mmu.ramBank \in {8, 9} -> 63
                        [] mmu.ramBank = 10 -> 31
                        [] mmu.ramBank = 11 -> 255
                        [] mmu.ramBank = 12 -> 193)
             ELSE MmuRead(Machine, obs.addr) = obs.value
        ELSE MmuRead(Machine, obs.addr) = obs.value

\* C10 witness: a non-zero byte written to echo RAM is read back there.
C10_Witness ==
    /\ obs.op = "write" /\ obs.addr = 57344 /\ obs.value = 255
    /\ MmuRead(Machine, 57344) = 255

\* The external RAM window [0xA000, 0xC000).
C11_Window(a) == a >= 40960 /\ a < 49152

\* C11: external RAM is enabled exactly when the last write to 0x0000-0x1FFF
\* had low nibble 0xA (and not before any such write); while it is not enabled,
\* every read of 0xA000-0xBFFF returns 0xFF and every write there leaves
\* external RAM and the clock registers unchanged, for every cartridge type and
\* bank selection.
C11_DisabledExternalRam ==
    [][/\ obs.op = "new" => ~mmu.ramEnabled
       /\ IF obs'.op = "write" /\ obs'.addr < 8192
          THEN mmu'.ramEnabled = (And(obs'.value, 15) = 10)
          ELSE mmu'.ramEnabled = mmu.ramEnabled
       /\ ~mmu.ramEnabled =>
            /\ \A a \in {40960, 45056, 49151} : MmuRead(Machine, a) = 255
            /\ (obs'.op = "read" /\ C11_Window(obs'.addr)) => obs'.value = 255
            /\ (obs'.op = "write" /\ C11_Window(obs'.addr)) =>
                    /\ mmu'.eram = mmu.eram
                    /\ mmu'.rtc = mmu.rtc
                    /\ mmu'.rtcLatchedData = mmu.rtcLatchedData]_vars

\* C11 witness: on an MBC3 cartridge with a clock register selected and external
\* RAM not enabled, 0xFF was written to 0xA000: nothing was stored and the
\* window reads 0xFF.
C11_Witness ==
    /\ obs.op = "write" /\ obs.addr = 40960 /\ obs.value = 255
    /\ ~mmu.ramEnabled
    /\ RtcSelected(mmu)
    /\ mmu.rtc = RtcZero /\ mmu.eram = Zeros
    /\ MmuRead(Machine, 40960) = 255

\* C21 as stated: on a cartridge of type 0x00 a write to 0x0000-0x7FFF changes
\* nothing, the RAM enable flag and the bank selectors included: afterwards
\* 0x0000-0x7FFF reads the ROM byte at the same offset and 0xA000-0xBFFF reads
\* what it read before the write.
C21_RomOnlyWrites ==
    [][(emu.romLoaded /\ mmu.rom.cartType = 0 /\ obs'.op = "write" /\ obs'.addr < 32768) =>
            /\ mmu' = mmu
            /\ \A a \in {0, 16383, 16384, 32767} :
                    MmuRead([Machine EXCEPT !.mmu = mmu'], a) = RomData(mmu.rom, a)
            /\ \A a \in {40960, 49151} :
                    MmuRead([Machine EXCEPT !.mmu = mmu'], a) = MmuRead(Machine, a)]_vars

(***************************************************************************)
(* Pixel unit specification: after a cartridge load (which resets the      *)
(* pixel unit) PPU.step is fed the cycle counts CPU.step returns, for      *)
(* MaxFrames frames.                                                       *)
(***************************************************************************)
MaxFrames == 2

CyclesPerFrame == 70224

StepCycles == 4 .. 24

InitPpu ==
    /\ mmu = EmuLoadROM(EmuNew, Cart(0, 0, 0, TitleA, Zeros)).mmu
    /\ cpu = CpuReset
    /\ ppu = PpuReset(PpuNew)
    /\ timer = TimerReset
    /\ input = InputReset
    /\ apu = ApuReset(ApuNew)
    /\ emu = [running |-> FALSE, romLoaded |-> TRUE]
    /\ obs = [total |-> 0]

PpuFeed ==
    /\ \E c \in StepCycles :
         /\ obs.total + c <= MaxFrames * CyclesPerFrame
         /\ Commit(PpuStep(Machine, c))
         /\ obs' = [total |-> obs.total + c]
    /\ UNCHANGED emu

NextPpu == PpuFeed

SpecPpu == InitPpu /\ [][NextPpu]_vars

\* C5: from reset with the LCD on, whenever the cycles fed to PPU.step in
\* chunks of 4..24 add up to a multiple of 70224, the line counter is 0 and the
\* mode is 2 (at the start of its OAM scan).
C5_FramePeriod ==
    obs.total % CyclesPerFrame = 0 =>
        ppu.ly = 0 /\ ppu.mode = 2 /\ ppu.modeCycles = 0

\* C5 witness: exactly one frame of cycles, and exactly two, have been fed.
C5_Witness ==
    /\ obs.total = MaxFrames * CyclesPerFrame
    /\ ppu.ly = 0 /\ ppu.mode = 2

(***************************************************************************)
(* Sample ring specification: the emulator has a cartridge loaded and is   *)
(* started (the audio context exists); the program has either left the     *)
(* sound registers alone or set channel 2 to a square wave.  APU.step      *)
(* (producer) and processAudio (consumer) then interleave freely until     *)
(* MaxSamples samples have been generated.                                 *)
(***************************************************************************)
MaxSamples == 6

\* Register writes of a program: NR22 = 0xF0, NR23 = 0xFF, NR24 = 0x87.
SquareWave == << <<65303, 240>>, <<65304, 255>>, <<65305, 135>> >>

RECURSIVE WriteAll(_, _)
WriteAll(S, writes) ==
    IF writes = <<>> THEN S
    ELSE WriteAll(MmuWrite(S, Head(writes)[1], Head(writes)[2]), Tail(writes))

\* Emulator.start() from the paused state with a ROM loaded.
EmuStart(S) == [S EXCEPT !.apu = ApuInit(@)]

\* The stereo samples between the read and the write index, oldest first.
RECURSIVE UnreadFrom(_, _)
UnreadFrom(a, r) ==
    IF r = a.bufferWritePos THEN <<>>
    ELSE << <<Get(a.sampleBuffer, r), Get(a.sampleBuffer, (r + 1) % BufLen)>> >>
         \o UnreadFrom(a, (r + 2) % BufLen)

Unread(a) == UnreadFrom(a, a.bufferReadPos)

\* Advancing the write index would make it equal to the read index.
RingFull(a) == (a.bufferWritePos + 2) % BufLen = a.bufferReadPos

InitRing ==
    /\ \E writes \in {<<>>, SquareWave} :
         LET S == WriteAll(EmuStart(EmuLoadROM(EmuNew, Cart(0, 0, 0, TitleA, Zeros))),
                           writes)
         IN  /\ mmu = S.mmu
             /\ cpu = S.cpu
             /\ ppu = S.ppu
             /\ timer = S.timer
             /\ input = S.input
             /\ apu = S.apu
    /\ emu = [running |-> TRUE, romLoaded |-> TRUE]
    /\ obs = [op |-> "start", produced |-> 0, consumed |-> 0, samples |-> 0,
              wasFull |-> FALSE, wasEmpty |-> TRUE, writePos |-> 0, readPos |-> 0,
              unread |-> <<>>, out |-> <<>>]

\* APU.step(cycles), called by the frame loop with the cycles of a CPU step.
RingProduce ==
    /\ \E c \in StepCycles :
         /\ obs.produced + SamplesIn(apu, c) <= MaxSamples
         /\ apu' = ApuStep(apu, c)
         /\ obs' = [obs EXCEPT !.op = "step",
                               !.produced = @ + SamplesIn(apu, c),
                               !.samples = SamplesIn(apu, c),
                               !.wasFull = RingFull(apu),
                               !.wasEmpty = (apu.bufferReadPos = apu.bufferWritePos),
                               !.writePos = apu.bufferWritePos,
                               !.readPos = apu.bufferReadPos,
                               !.unread = Unread(apu),
                               !.out = <<>>]
    /\ UNCHANGED <<mmu, cpu, ppu, timer, input, emu>>

\* processAudio(event), called by the host's audio thread of control.
RingConsume ==
    /\ apu' = ProcessAudio(apu)[1]
    /\ obs' = [obs EXCEPT !.op = "audio",
                          !.consumed = @ + ProcessAudio(apu)[3],
                          !.samples = 0,
                          !.wasFull = RingFull(apu),
                          !.wasEmpty = (apu.bufferReadPos = apu.bufferWritePos),
                          !.writePos = apu.bufferWritePos,
                          !.readPos = apu.bufferReadPos,
                          !.unread = Unread(apu),
                          !.out = ProcessAudio(apu)[2]]
    /\ UNCHANGED <<mmu, cpu, ppu, timer, input, emu>>

NextRing == RingProduce \/ RingConsume

SpecRing == InitRing /\ [][NextRing]_vars

\* C3 as stated: an APU.step that generates a sample while the ring is full
\* stores nothing: the write index and the unread samples stay as they were.
C3_FullRingDropsSample ==
    (obs.op = "step" /\ obs.samples > 0 /\ obs.wasFull) =>
        /\ apu.bufferWritePos = obs.writePos
        /\ Unread(apu) = obs.unread

\* C4: the consumer never takes more samples out of the ring than the producer
\* has written, and a processAudio call that finds read = write outputs only
\* silence and leaves the read index where it was.
C4_ConsumerBehindProducer ==
    /\ obs.consumed <= obs.produced
    /\ (obs.op = "audio" /\ obs.wasEmpty) =>
           /\ apu.bufferReadPos = obs.readPos
           /\ \A i \in 1 .. Len(obs.out) : obs.out[i] = <<0, 0>>
    /\ obs.op = "audio" =>
           \A i \in 1 .. Len(obs.out) :
              i > Len(obs.unread) => obs.out[i] = <<0, 0>>

\* C4 witness: the consumer has drained everything the producer wrote, audible
\* samples included, and a further call found the ring empty.
C4_Witness ==
    /\ obs.op = "audio" /\ obs.wasEmpty
    /\ obs.consumed = obs.produced /\ obs.produced >= 2
    /\ apu.ch2.enabled

(***************************************************************************)
(* CPU specification: a 32 KiB ROM-only cartridge holds the program        *)
(*                                                                         *)
(*   0100  LD SP,sp      0103  LD A,ie    / LDH (FF),A                     *)
(*   0107  LD A,tima / LDH (05),A         010B  LD A,tac / LDH (07),A      *)
(*   010F  LD A,if   / LDH (0F),A         0113  EI | DI                    *)
(*   0114  HALT | NOP    0115  JR 0114                                     *)
(*                                                                         *)
(* with RETI at each interrupt vector.  Emulator.step() runs it one        *)
(* instruction at a time, for MaxSteps steps, while the host delivers key  *)
(* events.                                                                 *)
(***************************************************************************)
MaxSteps == 26

Vectors == (64 :> 217) @@ (72 :> 217) @@ (80 :> 217) @@ (88 :> 217) @@ (96 :> 217)

Program(sp, ie, tm, if, ei, op) ==
    Vectors
    @@ (256 :> 49) @@ (257 :> sp % 256) @@ (258 :> sp \div 256)
    @@ (259 :> 62) @@ (260 :> ie) @@ (261 :> 224) @@ (262 :> 255)
    @@ (263 :> 62) @@ (264 :> tm[1]) @@ (265 :> 224) @@ (266 :> 5)
    @@ (267 :> 62) @@ (268 :> tm[2]) @@ (269 :> 224) @@ (270 :> 7)
    @@ (271 :> 62) @@ (272 :> if) @@ (273 :> 224) @@ (274 :> 15)
    @@ (275 :> ei) @@ (276 :> op) @@ (277 :> 24) @@ (278 :> 253)

Programs ==
    {Program(sp, ie, tm, if, ei, op) :
        sp \in {65534, 65297}, ie \in {0, 4, 31}, tm \in {<<0, 0>>, <<252, 5>>},
        if \in {0, 5}, ei \in {251, 243}, op \in {118, 0}}

Keys == {"KeyZ"}

\* What a step did: served an interrupt, idled in HALT, or ran an instruction.
StepKind(S) ==
    IF InterruptCycles(ImeApplied(S)) > 0 THEN "dispatch"
    ELSE IF ~StepFetches(S) THEN "halted"
    ELSE "exec"

InitCpu ==
    /\ \E code \in Programs :
         LET S == EmuLoadROM(EmuNew, Cart(0, 0, 0, TitleA, code))
         IN  /\ mmu = S.mmu
             /\ cpu = S.cpu
             /\ ppu = S.ppu
             /\ timer = S.timer
             /\ input = S.input
             /\ apu = S.apu
    /\ emu = [running |-> FALSE, romLoaded |-> TRUE]
    /\ obs = [op |-> "load", steps |-> 0, pre |-> CpuReset, preIF |-> 225,
              preIE |-> 0, mid |-> CpuReset, midIF |-> 225, cycles |-> 0,
              kind |-> "none", opcode |-> 0, stackLo |-> 0, stackHi |-> 0,
              eiArmed |-> FALSE, afterEi |-> FALSE]

\* What obs keeps of a CPU.step from S to M: the CPU and IF as the step found
\* and left them, what the step did, and the two bytes at the top of the stack.
StepObserved(S, M, kind, opcode, cycles, steps, afterEi) ==
    [op |-> "step", steps |-> steps,
     pre |-> S.cpu, preIF |-> Get(S.mmu.io, 15), preIE |-> S.mmu.ie,
     mid |-> M.cpu, midIF |-> Get(M.mmu.io, 15),
     cycles |-> cycles, kind |-> kind,
     opcode |-> IF kind = "exec" THEN opcode ELSE 0,
     stackLo |-> MmuRead(M, M.cpu.sp),
     stackHi |-> MmuRead(M, (M.cpu.sp + 1) % 65536),
     eiArmed |-> (kind = "exec" /\ opcode = 251 /\ ~S.cpu.ime /\ Pending(M) # 0),
     afterEi |-> afterEi]

\* Emulator.step().
CpuEmuStep ==
    /\ emu.romLoaded
    /\ obs.steps < MaxSteps
    /\ CanStep(Machine)
    /\ Commit(EmuStep(Machine))
    /\ obs' = StepObserved(Machine, CpuStep(Machine), StepKind(Machine),
                           StepOpcode(Machine), CpuStepCycles(Machine),
                           obs.steps + 1, obs.eiArmed)
    /\ UNCHANGED emu

\* Input.onKey for a mapped key: the latch changes and a press raises IF bit 4.
CpuKeyEvent ==
    /\ \E code \in Keys, pressed \in BOOLEAN :
         /\ input' = InputOnKey(input, code, pressed)
         /\ mmu' = IF pressed THEN RaiseIF(Machine, 16).mmu ELSE mmu
    /\ obs' = [obs EXCEPT !.op = "key"]
    /\ UNCHANGED <<cpu, ppu, timer, apu, emu>>

NextCpu == CpuEmuStep \/ CpuKeyEvent

SpecCpu == InitCpu /\ [][NextCpu]_vars

PrePending == And(And(obs.preIE, obs.preIF), 31)

\* C2 as stated: the CPU step right after an EI that ran with IME clear and an
\* enabled interrupt pending executes an instruction; it serves no interrupt.
C2_EiDelaysDispatch ==
    (obs.op = "step" /\ obs.afterEi) => obs.kind # "dispatch"

\* The lowest-numbered bit of the pending mask p.
C6_Lowest(p) == CHOOSE b \in 0 .. 4 : p % (2 ^ (b + 1)) = 2 ^ b

\* The registers and flags of the CPU, apart from PC and SP.
Registers(c) == <<c.a, c.b, c.c, c.d, c.e, c.h, c.l, c.flagZ, c.flagN, c.flagH, c.flagC>>

\* What C6 says of a step other than the IF register.
C6_Dispatch ==
    /\ obs.kind = "dispatch" /\ obs.opcode = 0
    /\ Registers(obs.mid) = Registers(obs.pre)
    /\ ~obs.mid.ime
    /\ obs.mid.sp = (obs.pre.sp - 2) % 65536
    /\ (obs.pre.sp >= 49154 /\ obs.pre.sp < 65024) \/ (obs.pre.sp >= 65410) =>
           obs.stackLo = obs.pre.pc % 256 /\ obs.stackHi = obs.pre.pc \div 256
    /\ obs.mid.pc = 64 + 8 * C6_Lowest(PrePending)
    /\ obs.cycles = 20

\* C6 as stated: a step that begins with IME set and IE & IF & 0x1F non-zero
\* runs no instruction, clears IME, pushes PC (SP decreases by 2), clears in IF
\* only the lowest pending bit b, sets PC to 0x40 + 8b and returns 20 cycles.
C6_InterruptDispatch ==
    (obs.op = "step" /\ obs.pre.ime /\ PrePending # 0) =>
        /\ C6_Dispatch
        /\ obs.midIF = AndNot(obs.preIF, 2 ^ C6_Lowest(PrePending))

\* IF as the push of PC leaves it: a pushed byte that lands on 0xFF0F is
\* stored there, masked to 5 bits.
C6_PushedIF ==
    IF (obs.pre.sp - 2) % 65536 = 65295 THEN (obs.pre.pc % 256) % 32
    ELSE IF (obs.pre.sp - 1) % 65536 = 65295 THEN (obs.pre.pc \div 256) % 32
    ELSE obs.preIF

\* C6, amended: as stated, except that the bit b is cleared in IF as the push
\* left it; IF changes in bit b only unless SP - 1 or SP - 2 is 0xFF0F.
C6_InterruptDispatchAmended ==
    (obs.op = "step" /\ obs.pre.ime /\ PrePending # 0) =>
        /\ C6_Dispatch
        /\ obs.midIF = AndNot(C6_PushedIF, 2 ^ C6_Lowest(PrePending))

\* C6 witness: with the timer and the joypad interrupt pending and the stack in
\* high RAM, the timer interrupt is served and the joypad bit stays set in IF.
C6_Witness ==
    /\ obs.op = "step" /\ obs.pre.ime /\ obs.kind = "dispatch"
    /\ PrePending = 20
    /\ obs.pre.sp = 65534
    /\ obs.mid.pc = 80 /\ obs.mid.sp = 65532
    /\ And(obs.midIF, 31) = 16

\* C7: a step that begins in HALT with nothing pending returns 4 cycles and
\* leaves PC, SP and the registers alone; with an enabled interrupt pending it
\* leaves HALT whatever IME is: it serves the interrupt if IME is set, else it
\* runs the instruction after HALT and the pending bits stay set in IF.
C7_Halt ==
    (obs.op = "step" /\ obs.pre.halted) =>
        IF PrePending = 0
        THEN /\ obs.cycles = 4 /\ obs.kind = "halted"
             /\ obs.mid.halted
             /\ obs.mid.pc = obs.pre.pc /\ obs.mid.sp = obs.pre.sp
             /\ Registers(obs.mid) = Registers(obs.pre)
        ELSE IF obs.pre.ime \/ obs.pre.imeScheduled
        THEN /\ obs.kind = "dispatch" /\ ~obs.mid.halted
             /\ obs.mid.pc = 64 + 8 * C6_Lowest(PrePending)
        ELSE /\ obs.kind = "exec"
             /\ obs.opcode = Get(mmu.rom.code, obs.pre.pc)
             /\ obs.opcode # 118 => ~obs.mid.halted
             /\ And(obs.midIF, PrePending) = PrePending

\* C7 witness: halted with IE = 0x04 and IME set, the CPU is woken by the TIMA
\* overflow and vectors to 0x0050.
C7_Witness ==
    /\ obs.op = "step" /\ obs.pre.halted /\ obs.kind = "dispatch"
    /\ obs.preIE = 4 /\ obs.mid.pc = 80
    /\ timer.tac = 5

\* C7 second witness state: woken with IME clear, the CPU runs the instruction
\* after HALT.
C7_WitnessResume ==
    /\ obs.op = "step" /\ obs.pre.halted /\ obs.kind = "exec"
    /\ ~obs.pre.ime /\ obs.opcode = 24

(***************************************************************************)
(* Save states.  A byte array is a sparse function with its length; the    *)
(* run-length coding and the base64 coding are computed on real byte       *)
(* sequences.  A base64 string is the sequence of its 6-bit digits, with   *)
(* 64 for the padding character.  The snapshot's timestamp is left out.    *)
(***************************************************************************)
\* The end of the run of equal bytes that starts at index i.
RunEnd(arr, len, i) ==
    LET v == Get(arr, i)
    IN  IF v = 0
        THEN IF \E k \in DOMAIN arr : k > i
             THEN CHOOSE k \in DOMAIN arr : k > i /\ \A j \in DOMAIN arr : j > i => k <= j
             ELSE len
        ELSE CHOOSE k \in i + 1 .. len :
                /\ k = len \/ Get(arr, k) # v
                /\ \A j \in i + 1 .. k - 1 : Get(arr, j) = v

\* Mutant of RunBytes: one or two bytes 255 are emitted as literals.
RunBytes_NoEscape(v, n) ==
    LET q == n \div 255
        r == n % 255
        full == [k \in 1 .. 3 * q |-> IF k % 3 = 0 THEN v ELSE 255]
        rest == IF r = 0 THEN <<>>
                ELSE IF r > 2 THEN <<255, r, v>>
                ELSE [k \in 1 .. r |-> v]
    IN  full \o rest

\* What _compressRLE emits for n equal bytes v that end a run: chunks of 255,
\* then the rest as [255, count, value] or as literals.
RunBytes(v, n) ==
    LET q == n \div 255
        r == n % 255
        full == [k \in 1 .. 3 * q |-> IF k % 3 = 0 THEN v ELSE 255]
        rest == IF r = 0 THEN <<>>
                ELSE IF r > 2 \/ v = 255 THEN <<255, r, v>>
                ELSE [k \in 1 .. r |-> v]
    IN  full \o rest

\* The loop of _compressRLE over one run of equal bytes, from index st.i.
CompressRun(arr, len, st) ==
    LET e == IF RunEnd(arr, len, st.i) > len THEN len ELSE RunEnd(arr, len, st.i)
    IN  [i |-> e, out |-> st.out \o RunBytes(Get(arr, st.i), e - st.i)]

\* The while loop of _compressRLE, nested so that the evaluation stays
\* shallow: at most n * 16^level runs are consumed.
RECURSIVE CompressLoop(_, _, _, _, _)
CompressLoop(arr, len, st, level, n) ==
    IF n = 0 \/ st.i >= len THEN st
    ELSE CompressLoop(arr, len,
                      IF level = 0 THEN CompressRun(arr, len, st)
                      ELSE CompressLoop(arr, len, st, level - 1, 16),
                      level, n - 1)

\* Emulator._compressRLE(data).
CompressRLE(arr, len) == CompressLoop(arr, len, [i |-> 0, out |-> <<>>], 4, 16).out

ByteAt(bytes, k) == IF k <= Len(bytes) THEN bytes[k] ELSE 0

\* One iteration of the while loop of _decompressRLE: source index st.src
\* (1-based), destination index st.dst, result st.acc.
DecompressToken(bytes, len, st) ==
    IF bytes[st.src] = 255
    THEN LET count == ByteAt(bytes, st.src + 1)
             value == ByteAt(bytes, st.src + 2)
             end == IF st.dst + count > len THEN len ELSE st.dst + count
         IN  [src |-> st.src + 3, dst |-> end,
              acc |-> [k \in (DOMAIN st.acc \ (IF value = 0 THEN st.dst .. end - 1 ELSE {}))
                              \cup (IF value = 0 THEN {} ELSE st.dst .. end - 1) |->
                          IF k >= st.dst /\ k < end THEN value ELSE st.acc[k]]]
    ELSE [src |-> st.src + 1, dst |-> st.dst + 1,
          acc |-> Put(st.acc, st.dst, bytes[st.src])]

\* The while loop of _decompressRLE, nested like CompressLoop.
RECURSIVE DecompressLoop(_, _, _, _, _)
DecompressLoop(bytes, len, st, level, n) ==
    IF n = 0 \/ st.src > Len(bytes) \/ st.dst >= len THEN st
    ELSE DecompressLoop(bytes, len,
                        IF level = 0 THEN DecompressToken(bytes, len, st)
                        ELSE DecompressLoop(bytes, len, st, level - 1, 16),
                        level, n - 1)

\* Emulator._decompressRLE(compressed, expectedLength).
DecompressRLE(bytes, len) ==
    DecompressLoop(bytes, len, [src |-> 1, dst |-> 0, acc |-> Zeros], 4, 16).acc

\* btoa(String.fromCharCode(...bytes)).
Btoa(bytes) ==
    LET n == Len(bytes)
        triple(g) == ByteAt(bytes, 3 * g + 1) * 65536 + ByteAt(bytes, 3 * g + 2) * 256
                     + ByteAt(bytes, 3 * g + 3)
        digit(i) ==
            LET g == (i - 1) \div 4
                j == (i - 1) % 4
            IN  IF (j = 2 /\ 3 * g + 2 > n) \/ (j = 3 /\ 3 * g + 3 > n) THEN 64
                ELSE (triple(g) \div (64 ^ (3 - j))) % 64
    IN  [i \in 1 .. 4 * ((n + 2) \div 3) |-> digit(i)]

\* The bytes of atob(b64), as decodeAndDecompress reads them.
Atob(b64) ==
    LET m == Len(b64)
        pad == Cardinality({i \in 1 .. m : b64[i] = 64})
        val(i) == IF b64[i] = 64 THEN 0 ELSE b64[i]
        quad(g) == val(4 * g + 1) * 262144 + val(4 * g + 2) * 4096
                   + val(4 * g + 3) * 64 + val(4 * g + 4)
    IN  [k \in 1 .. 3 * (m \div 4) - pad |->
            (quad((k - 1) \div 3) \div (256 ^ (2 - ((k - 1) % 3)))) % 256]

Encode(arr, len) == Btoa(CompressRLE(arr, len))

Decode(b64, len) == DecompressRLE(Atob(b64), len)

\* Mutant of IsAllZeros: every array counts as empty.
IsAllZeros_Always(arr) == TRUE

\* Emulator._isAllZeros(data).
IsAllZeros(arr) == DOMAIN arr = {}

\* "unknown".
Unknown == <<117, 110, 107, 110, 111, 119, 110>>

RECURSIVE TrimLeft(_)
TrimLeft(s) == IF s # <<>> /\ Head(s) = 32 THEN TrimLeft(Tail(s)) ELSE s

RECURSIVE TrimRight(_)
TrimRight(s) ==
    IF s # <<>> /\ s[Len(s)] = 32 THEN TrimRight(SubSeq(s, 1, Len(s) - 1)) ELSE s

\* Emulator._getROMTitle(): the printable characters of the header title up to
\* the first 0, trimmed; "unknown" when that is empty or no ROM is loaded.
GetROMTitle(m) ==
    IF m.rom = NoRom THEN Unknown
    ELSE LET ends == {k \in 308 .. 323 : RomData(m.rom, k) = 0}
             stop == IF ends = {} THEN 324
                     ELSE CHOOSE k \in ends : \A j \in ends : k <= j
             chars == [i \in 1 .. stop - 308 |-> RomData(m.rom, 307 + i)]
             title == TrimRight(TrimLeft(SelectSeq(chars, LAMBDA ch : ch >= 32 /\ ch < 127)))
         IN  IF title = <<>> THEN Unknown ELSE title

VramLength == 8192

WramLength == 8192

OamLength == 160

HramLength == 127

IoLength == 128

NoSnapshot == [version |-> 0]

\* Emulator.saveState() with a ROM loaded.  The snapshot's mbc.rtc is the
\* MMU's own rtc object: rtcLive says the snapshot still shares it.
SaveState(S) ==
    [version |-> 1,
     rom |-> GetROMTitle(S.mmu),
     cpu |-> [a |-> S.cpu.a, b |-> S.cpu.b, c |-> S.cpu.c, d |-> S.cpu.d,
              e |-> S.cpu.e, h |-> S.cpu.h, l |-> S.cpu.l, f |-> GetF(S.cpu),
              sp |-> S.cpu.sp, pc |-> S.cpu.pc, ime |-> S.cpu.ime,
              imeScheduled |-> S.cpu.imeScheduled, halted |-> S.cpu.halted,
              stopped |-> S.cpu.stopped],
     ppu |-> [lcdc |-> S.ppu.lcdc, stat |-> S.ppu.stat, scy |-> S.ppu.scy,
              scx |-> S.ppu.scx, ly |-> S.ppu.ly, lyc |-> S.ppu.lyc,
              wy |-> S.ppu.wy, wx |-> S.ppu.wx, bgp |-> S.ppu.bgp,
              obp0 |-> S.ppu.obp0, obp1 |-> S.ppu.obp1, mode |-> S.ppu.mode,
              modeCycles |-> S.ppu.modeCycles, windowLine |-> S.ppu.windowLine],
     timer |-> S.timer,
     mbc |-> [type |-> S.mmu.mbcType, romBank |-> S.mmu.romBank,
              romBankHigh |-> S.mmu.romBankHigh, ramBank |-> S.mmu.ramBank,
              ramEnabled |-> S.mmu.ramEnabled, mode |-> S.mmu.mbcMode,
              rtcLive |-> TRUE, rtc |-> S.mmu.rtc, rtcLatched |-> S.mmu.rtcLatched],
     mem |-> [vram |-> Encode(S.mmu.vram, VramLength),
              wram |-> Encode(S.mmu.wram, WramLength),
              oam |-> Encode(S.mmu.oam, OamLength),
              hram |-> Encode(S.mmu.hram, HramLength),
              io |-> Encode(S.mmu.io, IoLength),
              ie |-> S.mmu.ie,
              hasEram |-> ~IsAllZeros(S.mmu.eram),
              eram |-> IF IsAllZeros(S.mmu.eram) THEN <<>>
                       ELSE Encode(S.mmu.eram, EramLength)]]

\* The rtc object a snapshot refers to, as it is now.
SnapshotRtc(S, state) == IF state.mbc.rtcLive THEN S.mmu.rtc ELSE state.mbc.rtc

\* Mutant of LoadStateError: the ROM title is not compared.
LoadStateError_NoTitle(romLoaded, S, state) ==
    IF ~romLoaded THEN "No ROM loaded"
    ELSE IF state.version # 1 THEN "Unsupported save state version"
    ELSE "none"

\* The checks at the head of Emulator.loadState(state): the error thrown.
LoadStateError(romLoaded, S, state) ==
    IF ~romLoaded THEN "No ROM loaded"
    ELSE IF state.version # 1 THEN "Unsupported save state version"
    ELSE IF state.rom # GetROMTitle(S.mmu) THEN "Save state is for another ROM"
    ELSE "none"

\* The restoring part of Emulator.loadState(state).
LoadStateRestore(S, state) ==
    [S EXCEPT
       !.cpu = SetF([@ EXCEPT !.a = state.cpu.a, !.b = state.cpu.b, !.c = state.cpu.c,
                              !.d = state.cpu.d, !.e = state.cpu.e, !.h = state.cpu.h,
                              !.l = state.cpu.l, !.sp = state.cpu.sp,
                              !.pc = state.cpu.pc, !.ime = state.cpu.ime,
                              !.imeScheduled = state.cpu.imeScheduled,
                              !.halted = state.cpu.halted,
                              !.stopped = state.cpu.stopped], state.cpu.f),
       !.ppu = [@ EXCEPT !.lcdc = state.ppu.lcdc, !.stat = state.ppu.stat,
                         !.scy = state.ppu.scy, !.scx = state.ppu.scx,
                         !.ly = state.ppu.ly, !.lyc = state.ppu.lyc,
                         !.wy = state.ppu.wy, !.wx = state.ppu.wx,
                         !.bgp = state.ppu.bgp, !.obp0 = state.ppu.obp0,
                         !.obp1 = state.ppu.obp1, !.mode = state.ppu.mode,
                         !.modeCycles = state.ppu.modeCycles,
                         !.windowLine = state.ppu.windowLine],
       !.timer = state.timer,
       !.mmu = [@ EXCEPT !.romBank = state.mbc.romBank,
                         !.romBankHigh = state.mbc.romBankHigh,
                         !.ramBank = state.mbc.ramBank,
                         !.ramEnabled = state.mbc.ramEnabled,
                         !.mbcMode = state.mbc.mode,
                         !.rtc = SnapshotRtc(S, state),
                         !.rtcLatched = state.mbc.rtcLatched,
                         !.vram = Decode(state.mem.vram, VramLength),
                         !.wram = Decode(state.mem.wram, WramLength),
                         !.oam = Decode(state.mem.oam, OamLength),
                         !.hram = Decode(state.mem.hram, HramLength),
                         !.io = Decode(state.mem.io, IoLength),
                         !.ie = state.mem.ie,
                         !.eram = IF state.mem.hasEram
                                  THEN Decode(state.mem.eram, EramLength)
                                  ELSE Zeros]]

\* Emulator.loadState(state): the machine afterwards.
LoadState(romLoaded, S, state) ==
    IF LoadStateError(romLoaded, S, state) # "none" THEN S
    ELSE LoadStateRestore(S, state)

(***************************************************************************)
(* Save-state specification: the host loads one of two cartridges that     *)
(* differ in their title, single-steps it, takes snapshots and hands       *)
(* snapshots back to loadState.  The cartridge's program changes the       *)
(* background palette and then loops, so that the line drawn after the     *)
(* change differs from the blank frame.  A run is followed until DIV       *)
(* reaches MaxDiv (256 cycles each); loading a state winds DIV back.       *)
(***************************************************************************)
MaxDiv == 1

\* 0x100: LD A,0x1B; LDH (0x47),A; 0x104: JP 0x104.
SaveProgram ==
    (256 :> 62) @@ (257 :> 27) @@ (258 :> 224) @@ (259 :> 71) @@ (260 :> 195)
    @@ (261 :> 4) @@ (262 :> 1)

SaveCarts == {Cart(0, 0, 0, TitleA, SaveProgram), Cart(0, 0, 0, TitleB, SaveProgram)}

\* A snapshot of an earlier session, as Emulator.load() parses it from storage.
Stored ==
    [SaveState(EmuLoadROM(EmuNew, Cart(0, 0, 0, TitleA, SaveProgram)))
        EXCEPT !.mbc.rtcLive = FALSE]

\* obs: the last host call and its error, the version and title of the
\* snapshot passed to loadState and whether it is the one the host took, the
\* snapshot the host holds and the frame exposed when it was taken.
InitSave ==
    /\ Constructed
    /\ obs = [op |-> "new", error |-> "none", argVersion |-> 0, argRom |-> <<>>,
              ownSnapshot |-> FALSE, saved |-> NoSnapshot, savedFrame |-> Zeros]

\* Emulator.loadROM(data).
SaveLoadROM ==
    /\ \E data \in SaveCarts : Commit(EmuLoadROM(Machine, data))
    /\ emu' = [emu EXCEPT !.romLoaded = TRUE]
    /\ obs' = [obs EXCEPT !.op = "loadROM", !.error = "none", !.argVersion = 0,
                          !.argRom = <<>>, !.ownSnapshot = FALSE]

\* Emulator.step().
SaveEmuStep ==
    /\ emu.romLoaded
    /\ timer.div < MaxDiv
    /\ CanStep(Machine)
    /\ Commit(EmuStep(Machine))
    /\ obs' = [obs EXCEPT !.op = "step", !.error = "none", !.argVersion = 0,
                          !.argRom = <<>>, !.ownSnapshot = FALSE]
    /\ UNCHANGED emu

\* Emulator.saveState(): the host keeps the snapshot, and obs the frame the
\* emulator exposed at that moment.
SaveSnapshot ==
    /\ IF emu.romLoaded
       THEN obs' = [obs EXCEPT !.op = "saveState", !.error = "none",
                               !.argVersion = 0, !.argRom = <<>>,
                               !.ownSnapshot = FALSE,
                               !.saved = SaveState(Machine),
                               !.savedFrame = ppu.frameBuffer]
       ELSE obs' = [obs EXCEPT !.op = "saveState", !.error = "No ROM loaded",
                               !.argVersion = 0, !.argRom = <<>>,
                               !.ownSnapshot = FALSE]
    /\ UNCHANGED <<mmu, cpu, ppu, timer, input, apu, emu>>

\* The snapshots the host can pass: the stored one, the one it took, and
\* that one relabelled with another version.
Snapshots ==
    {Stored} \cup (IF obs.saved = NoSnapshot THEN {}
                   ELSE {obs.saved, [obs.saved EXCEPT !.version = 2]})

\* Emulator.loadState(state).  A successful load gives the MMU a new rtc
\* object, so the host's snapshot stops sharing it.
SaveRestore ==
    /\ \E state \in Snapshots :
         LET S == Machine
             err == LoadStateError(emu.romLoaded, S, state)
         IN  /\ Commit(LoadState(emu.romLoaded, S, state))
             /\ obs' = [obs EXCEPT
                          !.op = "loadState", !.error = err,
                          !.argVersion = state.version, !.argRom = state.rom,
                          !.ownSnapshot = (obs.saved # NoSnapshot /\ state = obs.saved),
                          !.saved = IF err = "none" /\ obs.saved # NoSnapshot
                                    THEN [@ EXCEPT !.mbc.rtcLive = FALSE,
                                                   !.mbc.rtc = SnapshotRtc(S, obs.saved)]
                                    ELSE @]
    /\ UNCHANGED emu

NextSave == SaveLoadROM \/ SaveEmuStep \/ SaveSnapshot \/ SaveRestore

SpecSave == InitSave /\ [][NextSave]_vars

\* C8 as stated: after loadState has accepted the snapshot the host took with
\* saveState, the frame buffer holds the frame it held when the snapshot was
\* taken.
C8_SaveLoadFrame ==
    (obs.op = "loadState" /\ obs.error = "none" /\ obs.ownSnapshot)
        => ppu.frameBuffer = obs.savedFrame

\* The title of the loaded ROM, read off the cartridge.
C9_LoadedTitle == IF mmu.rom = NoRom THEN Unknown ELSE mmu.rom.title

\* C9: a loadState call with a snapshot whose version is not 1, or whose
\* title is not the title of the loaded ROM, raises an error and leaves the
\* CPU, the pixel unit, the timer, the MMU (bank registers and memories), the
\* input latch and the sound unit as they were before the call.
C9_RejectedLoadKeepsState ==
    [][(/\ obs'.op = "loadState"
        /\ obs'.argVersion # 1 \/ obs'.argRom # C9_LoadedTitle)
           => /\ obs'.error # "none"
              /\ UNCHANGED <<mmu, cpu, ppu, timer, input, apu, emu>>]_vars

\* A rejected load: the host's snapshot was taken while the other cartridge
\* ran, before its palette write; the machine has run past that write.
C9_Witness ==
    /\ obs.op = "loadState"
    /\ obs.ownSnapshot
    /\ obs.argVersion = 1
    /\ obs.argRom = TitleA
    /\ mmu.rom # NoRom
    /\ mmu.rom.title = TitleB
    /\ obs.error = "Save state is for another ROM"
    /\ ppu.bgp = 27
    /\ obs.saved.ppu.bgp # 27
    /\ ppu.frameBuffer # Zeros

(***************************************************************************)
(* LCD register specification: after a cartridge load the program writes   *)
(* LCDC, STAT and LYC through the bus at any time while PPU.step is fed     *)
(* cycle counts that CPU.step returns.  obs keeps what the last operation  *)
(* was and the IF bits it raised (the bits it sets when IF is clear).       *)
(***************************************************************************)
LcdCycles == {12, 24}

\* LCDC off and on, STAT with and without the LYC enable, and LYC values.
LcdWrites ==
    {<<65344, 17>>, <<65344, 145>>, <<65345, 0>>, <<65345, 64>>,
     <<65349, 0>>, <<65349, 144>>, <<65349, 154>>}

IfCleared(S) == [S EXCEPT !.mmu.io = Put(@, 15, 0)]

\* The IF bits an operation leaving the machine T raised, T having been
\* computed from a machine with IF clear.
Raised(T) == Get(T.mmu.io, 15)

InitLcd ==
    /\ mmu = EmuLoadROM(EmuNew, Cart(0, 0, 0, TitleA, Zeros)).mmu
    /\ cpu = CpuReset
    /\ ppu = PpuReset(PpuNew)
    /\ timer = TimerReset
    /\ input = InputReset
    /\ apu = ApuReset(ApuNew)
    /\ emu = [running |-> FALSE, romLoaded |-> TRUE]
    /\ obs = [op |-> "load", raised |-> 0]

LcdStep ==
    /\ \E c \in LcdCycles :
         /\ Commit(PpuStep(Machine, c))
         /\ obs' = [op |-> "step", raised |-> Raised(PpuStep(IfCleared(Machine), c))]
    /\ UNCHANGED emu

LcdWrite ==
    /\ \E w \in LcdWrites :
         /\ Commit(MmuWrite(Machine, w[1], w[2]))
         /\ obs' = [op |-> "write",
                    raised |-> Raised(MmuWrite(IfCleared(Machine), w[1], w[2]))]
    /\ UNCHANGED emu

NextLcd == LcdStep \/ LcdWrite

SpecLcd == InitLcd /\ [][NextLcd]_vars

LcdOn(p) == And(p.lcdc, 128) # 0

\* C12: in every state reached from reset through LCDC/STAT/LYC writes and PPU
\* steps in which LCDC bit 7 is clear, the mode is 0 and the line counter is 0,
\* and a PPU.step taken with the display disabled changes neither the pixel
\* unit nor IF.
C12_DisplayOff ==
    [][/\ ~LcdOn(ppu) => (ppu.mode = 0 /\ ppu.ly = 0)
       /\ ~LcdOn(ppu') => (ppu'.mode = 0 /\ ppu'.ly = 0)
       /\ (obs'.op = "step" /\ ~LcdOn(ppu)) =>
            (ppu' = ppu /\ mmu' = mmu /\ obs'.raised = 0)]_vars

\* C12 witness: the display was turned off after at least one frame had been
\* presented, and a PPU.step has been taken with it off.
C12_Witness ==
    /\ ~LcdOn(ppu)
    /\ obs.op = "step"
    /\ ppu.imageData.shown
    /\ ppu.mode = 0 /\ ppu.ly = 0 /\ ppu.modeCycles = 0

\* C14 as stated: with the LCD on and STAT bit 6 set, a PPU.step raises IF
\* bit 1 for LYC exactly when it changes the line counter to a value equal to
\* LYC (the wrap to line 0 included); with STAT bit 6 clear it never does; and
\* a write that changes STAT raises nothing.  (The other STAT sources, bits
\* 3-5, are off.)
C14_LycRequest ==
    [][/\ (obs'.op = "step" /\ LcdOn(ppu) /\ And(ppu.stat, 56) = 0) =>
            (Bit(obs'.raised, 1) = 1 <=>
                (StatBit(ppu, 64) /\ ppu'.ly # ppu.ly /\ ppu'.ly = ppu.lyc))
       /\ (obs'.op = "write" /\ ppu'.stat # ppu.stat) =>
            (obs'.raised = 0 /\ Get(mmu'.io, 15) = Get(mmu.io, 15))]_vars

\* C28 as stated: a write that takes LCDC bit 7 from 0 to 1 leaves the PPU in
\* mode 2 at line 0 with a zero mode-cycle counter.
C28_EnableResumes ==
    [][(obs'.op = "write" /\ ~LcdOn(ppu) /\ LcdOn(ppu')) =>
            (ppu'.mode = 2 /\ ppu'.ly = 0 /\ ppu'.modeCycles = 0)]_vars

(***************************************************************************)
(* Timer specification: from the boot state the program sets TIMA, TMA and *)
(* TAC through the bus, and Timer.step is then fed cycle counts that        *)
(* CPU.step returns until MaxTimerCycles cycles have passed.               *)
(***************************************************************************)
MaxTimerCycles == 4200

TimerCycles == {12, 24}

\* TIMA and TMA values near the overflow, and TAC with each of the four rates.
TimerWrites ==
    {<<65285, 254>>, <<65285, 255>>, <<65286, 254>>, <<65286, 255>>,
     <<65287, 4>>, <<65287, 5>>, <<65287, 6>>, <<65287, 7>>}

InitTimer ==
    /\ mmu = EmuLoadROM(EmuNew, Cart(0, 0, 0, TitleA, Zeros)).mmu
    /\ cpu = CpuReset
    /\ ppu = PpuReset(PpuNew)
    /\ timer = TimerReset
    /\ input = InputReset
    /\ apu = ApuReset(ApuNew)
    /\ emu = [running |-> FALSE, romLoaded |-> TRUE]
    /\ obs = [op |-> "load", total |-> 0, cycles |-> 0, raised |-> 0]

TimerSetup ==
    /\ obs.total = 0
    /\ \E w \in TimerWrites : Commit(MmuWrite(Machine, w[1], w[2]))
    /\ obs' = [op |-> "write", total |-> 0, cycles |-> 0, raised |-> 0]
    /\ UNCHANGED emu

TimerRun ==
    /\ \E c \in TimerCycles :
         /\ obs.total + c <= MaxTimerCycles
         /\ Commit(TimerStep(Machine, c))
         /\ obs' = [op |-> "step", total |-> obs.total + c, cycles |-> c,
                    raised |-> Raised(TimerStep(IfCleared(Machine), c))]
    /\ UNCHANGED emu

NextTimer == TimerSetup \/ TimerRun

SpecTimer == InitTimer /\ [][NextTimer]_vars

\* The cycles per TIMA tick that TAC bits 0-1 select.
C15_Rate(tac) ==
    CASE And(tac, 3) = 0 -> 1024
      [] And(tac, 3) = 1 -> 16
      [] And(tac, 3) = 2 -> 64
      [] And(tac, 3) = 3 -> 256

\* C15: with TAC bit 2 set, a Timer.step of c cycles ticks TIMA once per
\* 1024, 16, 64 or 256 cycles accumulated (the remainder is carried over); a
\* tick past 0xFF reloads TIMA with TMA and IF bit 2 is set by that same step,
\* so TIMA is in 0..255 after the step, equals TMA when the step's last tick
\* overflowed, and has counted on from TMA otherwise; a step without overflow
\* raises nothing.
C15_TimaCounts ==
    [][(obs'.op = "step" /\ And(timer.tac, 4) # 0) =>
         LET rate == C15_Rate(timer.tac)
             n == (timer.timaCycles + obs'.cycles) \div rate
             past == timer.tima + n - 255
         IN  /\ timer'.timaCycles = (timer.timaCycles + obs'.cycles) % rate
             /\ timer'.tima \in 0 .. 255
             /\ IF past <= 0
                THEN timer'.tima = timer.tima + n /\ obs'.raised = 0
                ELSE /\ obs'.raised = 4
                     /\ Bit(Get(mmu'.io, 15), 2) = 1
                     /\ timer'.tima = timer.tma + ((past - 1) % (256 - timer.tma))]_vars

\* C15 witness: with TAC = 0x05 and TMA = 0xFE a step has just overflowed TIMA,
\* which holds 0xFE, and IF bit 2 is set.
C15_Witness ==
    /\ obs.op = "step" /\ obs.raised = 4
    /\ timer.tac = 5 /\ timer.tma = 254 /\ timer.tima = 254
    /\ Bit(Get(mmu.io, 15), 2) = 1

(***************************************************************************)
(* I/O register specification: after a cartridge load, key events arrive   *)
(* while the program writes and reads the joypad register, the interrupt   *)
(* flag and two I/O addresses that no device owns (0xFF03 and 0xFF7F).     *)
(***************************************************************************)
\* Input.onKey(event, pressed): the machine afterwards.  A key code outside
\* the switch returns before anything is changed.
OnKey(S, code, pressed) ==
    IF code \notin DOMAIN KeyMap THEN S
    ELSE LET S1 == [S EXCEPT !.input = InputOnKey(@, code, pressed)]
         IN  IF pressed THEN RaiseIF(S1, 16) ELSE S1

\* A button, a direction, and a key the latch does not map.
IoKeys == {"KeyZ", "ArrowRight", "KeyQ"}

IoAddrs == {65280, 65295, 65283, 65407}

IoVals == {0, 16, 32, 48}

InitIo ==
    /\ mmu = EmuLoadROM(EmuNew, Cart(0, 0, 0, TitleA, Zeros)).mmu
    /\ cpu = CpuReset
    /\ ppu = PpuReset(PpuNew)
    /\ timer = TimerReset
    /\ input = InputReset
    /\ apu = ApuReset(ApuNew)
    /\ emu = [running |-> FALSE, romLoaded |-> TRUE]
    /\ obs = [op |-> "load", code |-> "", pressed |-> FALSE, addr |-> 0, value |-> 0]

IoKey ==
    /\ \E code \in IoKeys, pressed \in BOOLEAN :
         /\ Commit(OnKey(Machine, code, pressed))
         /\ obs' = [op |-> "key", code |-> code, pressed |-> pressed,
                    addr |-> 0, value |-> 0]
    /\ UNCHANGED emu

IoWrite ==
    /\ \E a \in IoAddrs, v \in IoVals :
         /\ Commit(MmuWrite(Machine, a, v))
         /\ obs' = [op |-> "write", code |-> "", pressed |-> FALSE,
                    addr |-> a, value |-> v]
    /\ UNCHANGED emu

IoRead ==
    /\ \E a \in IoAddrs :
         obs' = [op |-> "read", code |-> "", pressed |-> FALSE,
                 addr |-> a, value |-> MmuRead(Machine, a)]
    /\ UNCHANGED <<mmu, cpu, ppu, timer, input, apu, emu>>

NextIo == IoKey \/ IoWrite \/ IoRead

SpecIo == InitIo /\ [][NextIo]_vars

\* C17 as stated: a read of 0xFF00 has bits 6 and 7 set, and its low nibble is
\* the directions when only select bit 4 is clear, the buttons when only select
\* bit 5 is clear, the bitwise AND of the two when both are clear, and 0xF when
\* neither is.
C17_JoypadRead ==
    LET r == MmuRead(Machine, 65280)
        dirs == And(input.p1, 16) = 0
        btns == And(input.p1, 32) = 0
    IN  /\ And(r, 192) = 192
        /\ r % 16 = IF dirs /\ btns THEN And(input.buttons, input.directions)
                    ELSE IF dirs THEN input.directions
                    ELSE IF btns THEN input.buttons
                    ELSE 15

\* C18 as stated: a key event for a mapped key sets IF bit 4 when it changes a
\* button or direction from released to pressed, and otherwise (a key-up, or a
\* key-down for a key that is already pressed) leaves IF unchanged.
C18_FreshPress ==
    [][(obs'.op = "key" /\ obs'.code \in DOMAIN KeyMap) =>
         IF obs'.pressed /\ input' # input
         THEN Bit(Get(mmu'.io, 15), 4) = 1
         ELSE Get(mmu'.io, 15) = Get(mmu.io, 15)]_vars

\* I/O addresses that belong to none of the input latch, timer, interrupt
\* flag, pixel unit, DMA and sound unit.
C19_Unowned == {65283, 65407}

\* C19 as stated: an I/O address that no device owns reads 0xFF in every
\* state, and a write to it changes nothing.
C19_UnknownIo ==
    [][/\ \A a \in C19_Unowned : MmuRead(Machine, a) = 255
       /\ (obs'.op = "write" /\ obs'.addr \in C19_Unowned) =>
            UNCHANGED <<mmu, cpu, ppu, timer, input, apu>>]_vars

(***************************************************************************)
(* Frame driver specification: a cartridge is loaded into a new emulator,  *)
(* which is started, paused, single-stepped and given key events by the    *)
(* host.  A frame() callback runs its loop to the end before the host can  *)
(* do anything else: emu.inFrame and emu.cycles are the position of the    *)
(* callback and its cycle accumulator, one loop iteration per action.      *)
(* obs keeps the last host call, the cycles of the last CPU step, the IF   *)
(* bits each device raised in it, and the cycles returned by the CPU and   *)
(* fed to each device so far.                                              *)
(***************************************************************************)
MaxFrameRuns == 1

MaxSingleSteps == 1

\* 0x100: LD A,0; LDH (0x0F),A; LD A,5; LDH (0x07),A; 0x108: JP 0x108.
FrameProgram ==
    (256 :> 62) @@ (257 :> 0) @@ (258 :> 224) @@ (259 :> 15) @@ (260 :> 62)
    @@ (261 :> 5) @@ (262 :> 224) @@ (263 :> 7) @@ (264 :> 195) @@ (265 :> 8)
    @@ (266 :> 1)

\* A ROM-only cartridge and one that declares an MBC2 (type 0x05).
FrameCarts == {Cart(0, 0, 0, TitleA, FrameProgram), Cart(5, 0, 0, TitleA, FrameProgram)}

\* The body of the loop of Emulator.frame() after the CPU step that left the
\* machine M and returned `cycles`: timer, pixel unit, sound unit.
FrameDevices(M, cycles) ==
    [PpuStep(TimerStep(M, cycles), cycles) EXCEPT !.apu = ApuStep(@, cycles)]

\* One iteration of the loop of Emulator.frame().
FrameIterate(S) == FrameDevices(CpuStep(S), CpuStepCycles(S))

NoneFed == [cpu |-> 0, timer |-> 0, ppu |-> 0, apu |-> 0]

HostObserved(op, error, key, old) ==
    [old EXCEPT !.op = op, !.error = error, !.cycles = 0, !.modeBefore = 0,
                !.timerRaised = 0, !.ppuRaised = 0, !.keyRaised = key]

\* What obs keeps of a CPU step that left the machine M and returned `cycles`.
IterObserved(op, M, cycles, apuFed, old) ==
    [old EXCEPT !.op = op, !.error = "none", !.cycles = cycles,
                !.modeBefore = M.ppu.mode,
                !.timerRaised = Raised(TimerStep(IfCleared(M), cycles)),
                !.ppuRaised = Raised(PpuStep(IfCleared(M), cycles)),
                !.keyRaised = 0,
                !.fed = [cpu |-> @.cpu + cycles, timer |-> @.timer + cycles,
                         ppu |-> @.ppu + cycles, apu |-> @.apu + apuFed]]

InitEmu ==
    /\ mmu = EmuNew.mmu
    /\ cpu = EmuNew.cpu
    /\ ppu = EmuNew.ppu
    /\ timer = EmuNew.timer
    /\ input = EmuNew.input
    /\ apu = EmuNew.apu
    /\ emu = [running |-> FALSE, romLoaded |-> FALSE, inFrame |-> FALSE, cycles |-> 0]
    /\ obs = [op |-> "new", error |-> "none", cycles |-> 0, modeBefore |-> 0,
              timerRaised |-> 0, ppuRaised |-> 0, keyRaised |-> 0, fed |-> NoneFed,
              singles |-> 0, frames |-> 0]

\* Emulator.loadROM(data): nothing in it or in MMU.loadROM reports an error.
EmuLoad ==
    /\ ~emu.inFrame /\ ~emu.romLoaded
    /\ \E data \in FrameCarts : Commit(EmuLoadROM(Machine, data))
    /\ emu' = [emu EXCEPT !.romLoaded = TRUE]
    /\ obs' = HostObserved("loadROM", "none", 0, obs)

\* Emulator.start().
EmuStartCall ==
    /\ ~emu.inFrame
    /\ IF ~emu.romLoaded
       THEN /\ UNCHANGED <<mmu, cpu, ppu, timer, input, apu, emu>>
            /\ obs' = HostObserved("start", "Cannot start: no ROM loaded", 0, obs)
       ELSE /\ Commit(IF emu.running THEN Machine ELSE EmuStart(Machine))
            /\ emu' = [emu EXCEPT !.running = TRUE]
            /\ obs' = HostObserved("start", "none", 0, obs)

\* Emulator.pause().
EmuPause ==
    /\ ~emu.inFrame /\ emu.running
    /\ emu' = [emu EXCEPT !.running = FALSE]
    /\ obs' = HostObserved("pause", "none", 0, obs)
    /\ UNCHANGED <<mmu, cpu, ppu, timer, input, apu>>

\* The frame() callback of a running emulator, one loop iteration at a time:
\* the first iteration starts the accumulator at 0, the one that reaches
\* cyclesPerFrame ends the callback.
EmuFrameIter ==
    /\ emu.running
    /\ emu.inFrame \/ obs.frames < MaxFrameRuns
    /\ CanStep(Machine)
    /\ Commit(FrameIterate(Machine))
    /\ LET total == (IF emu.inFrame THEN emu.cycles ELSE 0) + CpuStepCycles(Machine)
       IN  /\ emu' = [emu EXCEPT !.inFrame = total < CyclesPerFrame,
                                 !.cycles = IF total < CyclesPerFrame THEN total ELSE 0]
           /\ obs' = [IterObserved("iter", CpuStep(Machine), CpuStepCycles(Machine),
                                   CpuStepCycles(Machine), obs)
                         EXCEPT !.frames = IF total < CyclesPerFrame THEN @ ELSE @ + 1]

\* Emulator.step(), the debugger's single step.
EmuSingle ==
    /\ ~emu.inFrame /\ emu.romLoaded
    /\ obs.singles < MaxSingleSteps
    /\ CanStep(Machine)
    /\ Commit(EmuStep(Machine))
    /\ obs' = [IterObserved("step", CpuStep(Machine), CpuStepCycles(Machine), 0, obs)
                 EXCEPT !.singles = @ + 1]
    /\ UNCHANGED emu

\* A key event, delivered between two callbacks.
EmuKey ==
    /\ ~emu.inFrame
    /\ \E pressed \in BOOLEAN :
         /\ Commit(OnKey(Machine, "KeyZ", pressed))
         /\ obs' = HostObserved("key", "none",
                                Raised(OnKey(IfCleared(Machine), "KeyZ", pressed)), obs)
    /\ UNCHANGED emu

NextEmu == EmuLoad \/ EmuStartCall \/ EmuPause \/ EmuFrameIter \/ EmuSingle \/ EmuKey

SpecEmu == InitEmu /\ [][NextEmu]_vars

\* C13: a PPU.step raises IF bit 0 in exactly the steps that take the mode
\* from 0 to 1, which are the steps in which the line counter reaches 144; the
\* timer step of the same iteration, the sound unit (which has no access to
\* IF) and the key events never raise it.
C13_VBlankRequest ==
    [][/\ obs'.op \in {"iter", "step"} =>
            /\ Bit(obs'.ppuRaised, 0) = 1 <=> (obs'.modeBefore = 0 /\ ppu'.mode = 1)
            /\ (obs'.modeBefore = 0 /\ ppu'.mode = 1) <=> (ppu.ly = 143 /\ ppu'.ly = 144)
            /\ Bit(obs'.ppuRaised, 0) = 1 => Bit(Get(mmu'.io, 15), 0) = 1
            /\ Bit(obs'.ppuRaised, 0) = 0 =>
                    Bit(Get(mmu'.io, 15), 0) = Bit(Get(CpuStep(Machine).mmu.io, 15), 0)
            /\ Bit(obs'.timerRaised, 0) = 0
       /\ obs'.op = "key" =>
            /\ Bit(obs'.keyRaised, 0) = 0
            /\ Bit(Get(mmu'.io, 15), 0) = Bit(Get(mmu.io, 15), 0)]_vars

\* C13 witness: the program has cleared IF, and the loop iteration that took
\* the pixel unit from mode 0 to mode 1 at line 144 has set IF bit 0.
C13_Witness ==
    /\ obs.op = "iter"
    /\ obs.modeBefore = 0 /\ ppu.mode = 1 /\ ppu.ly = 144
    /\ Bit(obs.ppuRaised, 0) = 1
    /\ Get(mmu.io, 15) \in {1, 5}

\* C16 as stated: every CPU step of the emulator, in frame() and in step(), is
\* followed by Timer.step, PPU.step and APU.step with the cycles it returned:
\* the sound unit is left as APU.step leaves it, and timer, pixel unit and
\* sound unit have been fed the same total as the CPU returned.
C16_DevicesInStep ==
    [][obs'.op \in {"iter", "step"} =>
         /\ apu' = ApuStep(apu, obs'.cycles)
         /\ obs'.fed.timer = obs'.fed.cpu
         /\ obs'.fed.ppu = obs'.fed.cpu
         /\ obs'.fed.apu = obs'.fed.cpu]_vars

\* The cartridge types MMU.loadROM knows: none, MBC1, MBC3, MBC5.
C20_Supported(t) ==
    t = 0 \/ (t >= 1 /\ t <= 3) \/ (t >= 15 /\ t <= 19) \/ (t >= 25 /\ t <= 30)

\* C20 as stated: loadROM of a cartridge whose type byte is none of those
\* reports an error and leaves the emulator without a loaded ROM, so that
\* start() does not set it running.
C20_UnsupportedCartridge ==
    [][/\ (obs'.op = "loadROM" /\ ~C20_Supported(mmu'.rom.cartType)) =>
            (obs'.error # "none" /\ ~emu'.romLoaded)
       /\ (obs'.op = "start" /\ ~C20_Supported(mmu.rom.cartType)) =>
            ~emu'.running]_vars

(***************************************************************************)
(* MBC1 specification: an MBC1 cartridge of 8 banks, of 128 banks, or one  *)
(* whose header declares 8 banks while the image holds 4, is loaded, and   *)
(* the program writes the bank registers and reads ROM at will.            *)
(***************************************************************************)
BankCarts ==
    {Cart(1, 2, 2, TitleA, Zeros), Cart(1, 6, 2, TitleA, Zeros),
     [Cart(1, 2, 2, TitleA, Zeros) EXCEPT !.length = 4 * BankSize]}

\* One address in each bank register, and both ends of the bank select.
BankRegs == {8192, 16383, 16384, 24576}

BankVals == {0, 1, 2, 3, 6, 32, 35, 255}

BankReads == {0, 336, 16383, 16384, 16720, 32767}

InitBank ==
    /\ Constructed
    /\ obs = [op |-> "new", addr |-> 0, value |-> 0]

BankLoadROM ==
    /\ ~emu.romLoaded
    /\ \E data \in BankCarts : Commit(EmuLoadROM(Machine, data))
    /\ emu' = [emu EXCEPT !.romLoaded = TRUE]
    /\ obs' = [op |-> "load", addr |-> 0, value |-> 0]

BankWrite ==
    /\ emu.romLoaded
    /\ \E a \in BankRegs : \E v \in BankVals :
            /\ Commit(MmuWrite(Machine, a, v))
            /\ obs' = [op |-> "write", addr |-> a, value |-> v]
    /\ UNCHANGED emu

BankRead ==
    /\ emu.romLoaded
    /\ \E a \in BankReads :
         obs' = [op |-> "read", addr |-> a, value |-> MmuRead(Machine, a)]
    /\ UNCHANGED <<mmu, cpu, ppu, timer, input, apu, emu>>

NextBank == BankLoadROM \/ BankWrite \/ BankRead

SpecBank == InitBank /\ [][NextBank]_vars

\* The byte of image `rom` at `offset`, 0xFF past its end.
C22_ImageByte(rom, offset) == IF offset < rom.length THEN RomData(rom, offset) ELSE 255

\* The offset C22 gives for 0x4000 + k with the registers of m.
C22_Offset(m, k) == ((m.ramBank * 32 + m.romBank) % m.romBanks) * 16384 + k

\* C22: on an MBC1 cartridge a write of v to 0x2000-0x3FFF selects ROM bank
\* max(v & 0x1F, 1) and changes no other bank register, and the next read of
\* 0x4000 + k returns the ROM byte at (((ramBank << 5) | bank) mod romBanks) *
\* 0x4000 + k, or 0xFF when that offset is past the end of the image.
C22_Mbc1BankSelect ==
    [][/\ (obs'.op = "write" /\ obs'.addr >= 8192 /\ obs'.addr < 16384) =>
            /\ mmu'.romBank = (IF obs'.value % 32 > 1 THEN obs'.value % 32 ELSE 1)
            /\ mmu'.ramBank = mmu.ramBank /\ mmu'.mbcMode = mmu.mbcMode
            /\ \A k \in {0, 336, 16383} :
                    MmuRead([Machine EXCEPT !.mmu = mmu'], 16384 + k)
                        = C22_ImageByte(mmu.rom, C22_Offset(mmu', k))
       /\ (obs'.op = "read" /\ obs'.addr >= 16384 /\ obs'.addr < 32768) =>
            obs'.value = C22_ImageByte(mmu.rom, C22_Offset(mmu, obs'.addr - 16384))]_vars

\* C22 witness: with 128 banks and the RAM bank register at 2, 3 has just been
\* written to the bank select: bank 0x43 is read at 0x4000.
C22_Witness ==
    /\ obs.op = "write" /\ obs.addr = 8192 /\ obs.value = 3
    /\ mmu.romBanks = 128 /\ mmu.ramBank = 2 /\ mmu.romBank = 3
    /\ MmuRead(Machine, 16384) = RomData(mmu.rom, 67 * 16384)
    /\ MmuRead(Machine, 16384) # RomData(mmu.rom, 3 * 16384)

\* C22 at the end of the image: on the image that holds 4 of its 8 banks, bank
\* 6 has been read as 0xFF.
C22_WitnessPastEnd ==
    /\ mmu.romBanks = 8 /\ mmu.ramBank = 0 /\ mmu.romBank = 6
    /\ mmu.rom.length = 65536
    /\ obs.op = "read" /\ obs.addr = 16384 /\ obs.value = 255

\* C23: on an MBC1 cartridge with the mode bit 1 and the RAM bank register r, a
\* read of a in 0x0000-0x3FFF returns the ROM byte at ((r << 5) mod romBanks) *
\* 0x4000 + a where the image holds that offset; with the mode bit 0 it
\* returns ROM byte a whatever r is.
C23_Mbc1FixedBank ==
    emu.romLoaded =>
        \A a \in {0, 336, 16383} :
            IF mmu.mbcMode = 1
            THEN LET offset == ((mmu.ramBank * 32) % mmu.romBanks) * 16384 + a
                 IN  offset < mmu.rom.length =>
                        /\ MmuRead(Machine, a) = RomData(mmu.rom, offset)
                        /\ (obs.op = "read" /\ obs.addr = a) => obs.value = RomData(mmu.rom, offset)
            ELSE /\ MmuRead(Machine, a) = RomData(mmu.rom, a)
                 /\ (obs.op = "read" /\ obs.addr = a) => obs.value = RomData(mmu.rom, a)

\* C23 witness: with 128 banks, mode 1 and the RAM bank register at 2, the read
\* of 0x0150 returned the byte of bank 0x40, which is not the byte of bank 0.
C23_Witness ==
    /\ mmu.romBanks = 128 /\ mmu.mbcMode = 1 /\ mmu.ramBank = 2
    /\ obs.op = "read" /\ obs.addr = 336
    /\ obs.value = RomData(mmu.rom, 64 * 16384 + 336)
    /\ obs.value # RomData(mmu.rom, 336)

(***************************************************************************)
(* Sweep specification: after a cartridge load the program writes channel  *)
(* 1's registers through the bus, and the emulator steps the sound unit,   *)
(* MaxSweepSteps times at most.                                            *)
(***************************************************************************)
MaxSweepSteps == 1

\* The cycles of one APU.step: half the period of the frame sequencer.
SweepCycles == {4096}

\* NR10 (period 1, add, shift 7 or 1), NR12 (DAC on, off), NR13 (low byte 0),
\* NR14 (trigger, frequency 0x700).
SweepWrites ==
    {<<65296, 23>>, <<65296, 17>>, <<65298, 240>>, <<65298, 0>>, <<65299, 0>>,
     <<65300, 135>>}

InitSweep ==
    /\ mmu = EmuLoadROM(EmuNew, Cart(0, 0, 0, TitleA, Zeros)).mmu
    /\ cpu = CpuReset
    /\ ppu = PpuReset(PpuNew)
    /\ timer = TimerReset
    /\ input = InputReset
    /\ apu = ApuReset(ApuNew)
    /\ emu = [running |-> FALSE, romLoaded |-> TRUE]
    /\ obs = [op |-> "load", addr |-> 0, value |-> 0, steps |-> 0]

\* A write to a register of channel 1, through MMU.write.
SweepWrite ==
    /\ \E w \in SweepWrites :
         /\ Commit(MmuWrite(Machine, w[1], w[2]))
         /\ obs' = [obs EXCEPT !.op = "write", !.addr = w[1], !.value = w[2]]
    /\ UNCHANGED emu

\* APU.step(cycles).
SweepRun ==
    /\ obs.steps < MaxSweepSteps
    /\ \E c \in SweepCycles : apu' = ApuStep(apu, c)
    /\ obs' = [obs EXCEPT !.op = "step", !.addr = 0, !.value = 0, !.steps = @ + 1]
    /\ UNCHANGED <<mmu, cpu, ppu, timer, input, emu>>

NextSweep == SweepWrite \/ SweepRun

SpecSweep == InitSweep /\ [][NextSweep]_vars

\* The state C24 is about: the trigger write NR14 = 0x87 has just been made
\* with the sound unit on, NR10 = 0x10 + shift (period 1, add) and NR13 = 0.
C24_Triggered(shift) ==
    /\ obs.op = "write" /\ obs.addr = 65300 /\ obs.value = 135
    /\ apu.masterEnable
    /\ apu.ch1.sweepPeriod = 1 /\ ~apu.ch1.sweepNegate /\ apu.ch1.sweepShift = shift
    /\ apu.ch1.sweepShadow = 1792

\* C24 as stated: after NR10 = 0x17, NR13 = 0x00, NR14 = 0x87 the sweep check of
\* the trigger has found a frequency above 2047 and channel 1 is disabled,
\* also when its DAC is on.
C24_SweepDisables == C24_Triggered(7) => ~apu.ch1.enabled

\* C24, amended: after NR10 = 0x17, NR13 = 0x00, NR14 = 0x87 the sweep check of
\* the trigger computes 0x700 + (0x700 >> 7) = 1806, which is not above 2047,
\* and channel 1 is enabled exactly when its DAC is on; with shift 1 (NR10 =
\* 0x11) the check computes 2688 and channel 1 is disabled also when its DAC
\* is on.
C24_SweepDisablesAmended ==
    /\ C24_Triggered(7) =>
            /\ 1792 + Shr(1792, 7) = 1806
            /\ apu.ch1.enabled = apu.ch1.dacEnabled
            /\ apu.ch1.frequency = 1792
    /\ C24_Triggered(1) =>
            /\ 1792 + Shr(1792, 1) = 2688
            /\ ~apu.ch1.enabled

\* C24 at an overflow: with the DAC on, the trigger after NR10 = 0x11 has left
\* channel 1 disabled.
C24_WitnessOverflow == C24_Triggered(1) /\ apu.ch1.dacEnabled /\ ~apu.ch1.enabled

\* C24 witness: with the DAC on, the trigger after NR10 = 0x17 and NR13 = 0x00
\* has left channel 1 enabled.
C24_Witness == C24_Triggered(7) /\ apu.ch1.dacEnabled /\ apu.ch1.enabled

(***************************************************************************)
(* Master enable specification: after a cartridge load the program has     *)
(* turned the DACs of the four channels on; it then triggers the channels  *)
(* and writes NR52 and wave RAM in any order, and the emulator steps the   *)
(* sound unit, MaxApuSteps times at most.                                  *)
(***************************************************************************)
MaxApuSteps == 1

ApuCycles == {4}

\* NR12 = 0xF0, NR22 = 0xF0, NR30 = 0x80, NR42 = 0xF0.
DacsOn == <<(<<65298, 240>>), (<<65303, 240>>), (<<65306, 128>>), (<<65313, 240>>)>>

\* The triggers NR14, NR24, NR34, NR44; NR50; NR52 off and on; the first byte
\* of wave RAM.
ApuWrites ==
    {<<65300, 128>>, <<65305, 128>>, <<65310, 128>>, <<65315, 128>>,
     <<65316, 0>>, <<65318, 0>>, <<65318, 128>>, <<65328, 171>>}

InitApu ==
    LET S == WriteAll(EmuLoadROM(EmuNew, Cart(0, 0, 0, TitleA, Zeros)), DacsOn)
    IN  /\ mmu = S.mmu
        /\ cpu = S.cpu
        /\ ppu = S.ppu
        /\ timer = S.timer
        /\ input = S.input
        /\ apu = S.apu
        /\ emu = [running |-> FALSE, romLoaded |-> TRUE]
        /\ obs = [op |-> "load", addr |-> 0, value |-> 0, steps |-> 0]

\* A write to a sound register, through MMU.write.
ApuWrite ==
    /\ \E w \in ApuWrites :
         /\ Commit(MmuWrite(Machine, w[1], w[2]))
         /\ obs' = [obs EXCEPT !.op = "write", !.addr = w[1], !.value = w[2]]
    /\ UNCHANGED emu

\* APU.step(cycles).
ApuRun ==
    /\ obs.steps < MaxApuSteps
    /\ \E c \in ApuCycles : apu' = ApuStep(apu, c)
    /\ obs' = [obs EXCEPT !.op = "step", !.addr = 0, !.value = 0, !.steps = @ + 1]
    /\ UNCHANGED <<mmu, cpu, ppu, timer, input, emu>>

NextApu == ApuWrite \/ ApuRun

SpecApu == InitApu /\ [][NextApu]_vars

C25_AnyEnabled(a) == a.ch1.enabled \/ a.ch2.enabled \/ a.ch3.enabled \/ a.ch4.enabled

\* C25: clearing NR52 bit 7 disables all four channels; while the master
\* enable is clear a write to 0xFF10-0xFF25 and a step leave the whole sound
\* unit unchanged, a write to NR52 changes the master enable and nothing else,
\* a write to wave RAM is stored; no channel is enabled while the master enable
\* is clear.
C25_MasterDisable ==
    [][/\ ~apu.masterEnable => ~C25_AnyEnabled(apu)
       /\ ~apu'.masterEnable => ~C25_AnyEnabled(apu')
       /\ (obs'.op = "write" /\ obs'.addr = 65318 /\ obs'.value < 128) =>
            ~apu'.masterEnable
       /\ ~apu.masterEnable =>
            /\ (obs'.op = "write" /\ obs'.addr >= 65296 /\ obs'.addr <= 65317) =>
                    apu' = apu
            /\ obs'.op = "step" => apu' = apu
            /\ (obs'.op = "write" /\ obs'.addr = 65318) =>
                    apu' = [apu EXCEPT !.masterEnable = obs'.value >= 128]
            /\ (obs'.op = "write" /\ obs'.addr = 65328) =>
                    /\ Get(apu'.waveRam, 0) = obs'.value
                    /\ ApuReadRegister(apu', 65328) = obs'.value]_vars

\* C25 witness: all four channels were enabled and the write of 0 to NR52 has
\* just disabled them.
C25_Witness ==
    /\ obs.op = "write" /\ obs.addr = 65318 /\ obs.value = 0
    /\ ~apu.masterEnable /\ ~C25_AnyEnabled(apu)
    /\ apu.ch1.envVolume = 15 /\ apu.ch2.envVolume = 15
    /\ apu.ch3.lengthCounter = 256 /\ apu.ch4.envVolume = 15

\* C25 witness of an ignored write: with the master enable clear and channel
\* 1's DAC on, the trigger NR14 = 0x80 has been written and channel 1 is not
\* enabled.
C25_WitnessIgnored ==
    /\ obs.op = "write" /\ obs.addr = 65300
    /\ ~apu.masterEnable /\ apu.ch1.dacEnabled /\ ~apu.ch1.enabled

(***************************************************************************)
(* Sprite specification.  The program has turned sprites on, set OBP0 to   *)
(* the identity palette 0xE4, made row 0 of tile 1 solid colour 1 and of   *)
(* tile 2 solid colour 2, and put eleven sprites on line 0: entries 0..8   *)
(* off screen to the left (X = 0), entry 9 with tile 1 and entry 10 with   *)
(* tile 2 at the left edge (X = 8).  It then moves entry 8 off and on the  *)
(* line, moves entries 9 and 10 between X = 8 and X = 9 and changes the    *)
(* tile of entry 9, while the pixel unit scans the first MaxSpriteLines    *)
(* lines.                                                                  *)
(***************************************************************************)
MaxSpriteLines == 1

SpriteCycles == {24}

\* Address of byte k of OAM entry i.
OamAddr(i, k) == 65024 + 4 * i + k

SpriteSetup ==
    <<(<<65344, 147>>), (<<65352, 228>>), (<<32784, 255>>), (<<32801, 255>>)>>
    \o [i \in 1 .. 11 |-> <<OamAddr(i - 1, 0), 16>>]
    \o <<(<<OamAddr(9, 1), 8>>), (<<OamAddr(9, 2), 1>>),
         (<<OamAddr(10, 1), 8>>), (<<OamAddr(10, 2), 2>>)>>

SpriteWrites ==
    {<<OamAddr(8, 0), 0>>, <<OamAddr(8, 0), 16>>, <<OamAddr(9, 1), 8>>,
     <<OamAddr(9, 1), 9>>, <<OamAddr(10, 1), 8>>, <<OamAddr(10, 1), 9>>,
     <<OamAddr(9, 2), 0>>, <<OamAddr(9, 2), 1>>}

InitSprite ==
    LET S == WriteAll(EmuLoadROM(EmuNew, Cart(0, 0, 0, TitleA, Zeros)), SpriteSetup)
    IN  /\ mmu = S.mmu
        /\ cpu = S.cpu
        /\ ppu = S.ppu
        /\ timer = S.timer
        /\ input = S.input
        /\ apu = S.apu
        /\ emu = [running |-> FALSE, romLoaded |-> TRUE]
        /\ obs = [op |-> "load"]

\* A write to OAM, through MMU.write.
SpriteWrite ==
    /\ \E w \in SpriteWrites : Commit(MmuWrite(Machine, w[1], w[2]))
    /\ obs' = [op |-> "write"]
    /\ UNCHANGED emu

\* PPU.step(cycles).
SpriteStep ==
    /\ ppu.ly < MaxSpriteLines
    /\ \E c \in SpriteCycles : Commit(PpuStep(Machine, c))
    /\ obs' = [op |-> "step"]
    /\ UNCHANGED emu

NextSprite == SpriteWrite \/ SpriteStep

SpecSprite == InitSprite /\ [][NextSprite]_vars

\* OAM entry i covers the line (8-line sprites).
C26_Covers(oam, i, line) ==
    line >= Get(oam, 4 * i) - 16 /\ line < Get(oam, 4 * i) - 16 + 8

\* The first ten OAM entries covering the line.
C26_Selected(oam, line) ==
    {i \in 0 .. 39 : /\ C26_Covers(oam, i, line)
                     /\ Cardinality({j \in 0 .. i - 1 : C26_Covers(oam, j, line)}) < 10}

\* The colour number of OAM entry i's tile at screen position x of the line
\* (8-line sprites, tile data at 0x8000, no flips).
C26_Colour(vram, oam, line, x, i) ==
    GetTilePixel(vram, 32768 + 16 * Get(oam, 4 * i + 2),
                 x - (Get(oam, 4 * i + 1) - 8), line - (Get(oam, 4 * i) - 16))

\* The selected sprites with a non-transparent pixel at screen position x.
C26_Opaque(vram, oam, line, x) ==
    {i \in C26_Selected(oam, line) :
        /\ x >= Get(oam, 4 * i + 1) - 8 /\ x < Get(oam, 4 * i + 1)
        /\ C26_Colour(vram, oam, line, x, i) # 0}

\* C26: when a scanline is rendered and selected sprites, none with the
\* priority flag, have a non-transparent pixel at the same position, the pixel
\* shown is that of the sprite with the smallest X and, among equal X, the
\* smallest OAM index; with the identity palette its colour is the colour
\* number of that sprite's tile at that position.
C26_SpritePriority ==
    [][(ppu.mode = 3 /\ ppu'.mode = 0) =>
         \A x \in 0 .. ViewW - 1 :
            LET opaque == C26_Opaque(mmu.vram, mmu.oam, ppu.ly, x)
                first == CHOOSE i \in opaque : \A j \in opaque \ {i} :
                            \/ Get(mmu.oam, 4 * i + 1) < Get(mmu.oam, 4 * j + 1)
                            \/ /\ Get(mmu.oam, 4 * i + 1) = Get(mmu.oam, 4 * j + 1)
                               /\ i < j
            IN  opaque # {} =>
                    Get(ppu'.frameBuffer, ppu.ly * ScreenW + x)
                        = C26_Colour(mmu.vram, mmu.oam, ppu.ly, x, first)]_vars

\* C26 witness: line 0 has been rendered with entry 9 (tile 1) at X = 9 and
\* entry 10 (tile 2) at X = 8, both selected: pixel 1, which both cover, shows
\* entry 10.
C26_Witness ==
    /\ ppu.mode = 0 /\ ppu.ly = 0 /\ obs.op = "step"
    /\ C26_Opaque(mmu.vram, mmu.oam, 0, 1) = {9, 10}
    /\ Get(mmu.oam, OamAddr(9, 1) - 65024) = 9 /\ Get(mmu.oam, OamAddr(10, 1) - 65024) = 8
    /\ Get(ppu.frameBuffer, 1) = 2

\* C26 at the tie: entries 9 and 10 both at X = 8, pixel 0 shows entry 9.
C26_WitnessTie ==
    /\ ppu.mode = 0 /\ ppu.ly = 0 /\ obs.op = "step"
    /\ C26_Opaque(mmu.vram, mmu.oam, 0, 0) = {9, 10}
    /\ Get(ppu.frameBuffer, 0) = 1

\* C26 at the limit of ten: with entries 0..9 covering the line, entry 10 is
\* not selected and entry 9 at X = 9 is shown at pixel 1.
C26_WitnessTenth ==
    /\ ppu.mode = 0 /\ ppu.ly = 0 /\ obs.op = "step"
    /\ C26_Opaque(mmu.vram, mmu.oam, 0, 1) = {9}
    /\ Get(mmu.oam, OamAddr(10, 1) - 65024) = 8 /\ Get(mmu.oam, OamAddr(9, 1) - 65024) = 9
    /\ Get(ppu.frameBuffer, 1) = 1 /\ Get(ppu.frameBuffer, 0) = 0

(***************************************************************************)
(* Flag register specification.  The program stores a byte at 0xC000,      *)
(* points SP at it, pops it into AF and pushes AF back; the host may at    *)
(* any time load a snapshot of the machine in which f has been edited.     *)
(* The emulator is stepped MaxFlagSteps times at most.                     *)
(***************************************************************************)
MaxFlagSteps == 8

FlagBytes == {255, 15, 90}

\* 0x100: LD A,v; LD (0xC000),A; LD SP,0xC000; POP AF; PUSH AF; 0x10A: JP 0x10A.
FlagProgram(v) ==
    (256 :> 62) @@ (257 :> v) @@ (258 :> 234) @@ (259 :> 0) @@ (260 :> 192)
    @@ (261 :> 49) @@ (262 :> 0) @@ (263 :> 192) @@ (264 :> 241) @@ (265 :> 245)
    @@ (266 :> 195) @@ (267 :> 10) @@ (268 :> 1)

InitFlags ==
    /\ \E v \in FlagBytes :
         LET S == EmuLoadROM(EmuNew, Cart(0, 0, 0, TitleA, FlagProgram(v)))
         IN  /\ mmu = S.mmu
             /\ cpu = S.cpu
             /\ ppu = S.ppu
             /\ timer = S.timer
             /\ input = S.input
             /\ apu = S.apu
    /\ emu = [running |-> FALSE, romLoaded |-> TRUE]
    /\ obs = [op |-> "load", opcode |-> 0, f |-> 0, steps |-> 0]

\* Emulator.step().
FlagStep ==
    /\ obs.steps < MaxFlagSteps
    /\ CanStep(Machine)
    /\ Commit(EmuStep(Machine))
    /\ obs' = [op |-> "step", opcode |-> StepOpcode(Machine), f |-> 0,
               steps |-> obs.steps + 1]
    /\ UNCHANGED emu

\* Emulator.loadState(state), state being a snapshot of this machine in which
\* cpu.f has been set to v.
FlagRestore ==
    /\ \E v \in FlagBytes :
         /\ Commit(LoadState(emu.romLoaded, Machine, [SaveState(Machine) EXCEPT !.cpu.f = v]))
         /\ obs' = [obs EXCEPT !.op = "loadState", !.opcode = 0, !.f = v]
    /\ UNCHANGED emu

NextFlags == FlagStep \/ FlagRestore

SpecFlags == InitFlags /\ [][NextFlags]_vars

\* C27: F read directly or through AF has its low four bits clear in every
\* state; POP AF takes the high nibble of the popped low byte, PUSH AF stores
\* a byte whose low nibble is zero, and loadState with any value for f leaves F
\* equal to that value's high nibble.
C27_FlagsLowNibble ==
    [][/\ GetF(cpu') % 16 = 0
       /\ GetAF(cpu') % 16 = 0
       /\ (obs'.op = "step" /\ obs'.opcode = 241) =>
            /\ GetF(cpu') = And(MmuRead(Machine, cpu.sp), 240)
            /\ cpu'.a = MmuRead(Machine, cpu.sp + 1)
       /\ (obs'.op = "step" /\ obs'.opcode = 245) =>
            /\ MmuRead([Machine EXCEPT !.mmu = mmu'], cpu'.sp) % 16 = 0
            /\ MmuRead([Machine EXCEPT !.mmu = mmu'], cpu'.sp) = GetF(cpu)
       /\ obs'.op = "loadState" => GetF(cpu') = And(obs'.f, 240)]_vars

\* C27 witness: 0xFF was popped into F and PUSH AF has stored 0xF0 where 0xFF
\* had been.
C27_Witness ==
    /\ obs.op = "step" /\ obs.opcode = 245
    /\ Get(mmu.rom.code, 257) = 255
    /\ cpu.sp = 49152
    /\ MmuRead(Machine, 49152) = 240
    /\ GetF(cpu) = 240

\* C27 after loadState: a snapshot with f = 0x0F has been loaded and F reads 0.
C27_WitnessRestore == obs.op = "loadState" /\ obs.f = 15 /\ GetF(cpu) = 0

(***************************************************************************)
(* Window specification.  The program switches the window and the display  *)
(* on and off through LCDC and moves the window between line 0 and line 1  *)
(* through WY, while PPU.step is fed 4 cycles at a time.  The behaviours    *)
(* start right after a cartridge load, or on the last line of a first      *)
(* frame in which the window was on from the start, and cover the first    *)
(* MaxWindowLines lines of a frame and its last line.  obs.drawn counts    *)
(* the scanlines of the current frame on which renderWindow wrote a pixel; *)
(* a frame begins at the wrap from the last line to line 0 and when the    *)
(* display is switched off, which puts the PPU back on line 0; obs.offs    *)
(* counts the times the display was switched off.                          *)
(***************************************************************************)
MaxWindowLines == 2

\* The number of times the display is switched off in a behaviour.
MaxOffSwitches == 1

WindowCycles == {4}

WindowWrites ==
    {<<65344, 177>>, <<65344, 145>>, <<65344, 49>>, <<65354, 0>>, <<65354, 1>>}

\* The machine on line `last` of V-blank in the first frame after a load that
\* was followed by LCDC = 0xB1, PPU.step having been fed 4 cycles at a time:
\* every line of the frame drew the window in colour 0 and the frame has been
\* presented.
LateFrame(last) ==
    LET S == MmuWrite(EmuLoadROM(EmuNew, Cart(0, 0, 0, TitleA, Zeros)), 65344, 177)
    IN  [S EXCEPT !.ppu.ly = last, !.ppu.mode = 1, !.ppu.modeCycles = 0,
                  !.ppu.windowLine = ScreenH,
                  !.ppu.imageData = [shown |-> TRUE, px |-> S.ppu.frameBuffer]]

WindowStarts ==
    {[m |-> EmuLoadROM(EmuNew, Cart(0, 0, 0, TitleA, Zeros)), drawn |-> 0],
     [m |-> LateFrame(ScreenH + 9), drawn |-> ScreenH]}

InitWindow ==
    \E s \in WindowStarts :
        /\ mmu = s.m.mmu
        /\ cpu = s.m.cpu
        /\ ppu = s.m.ppu
        /\ timer = s.m.timer
        /\ input = s.m.input
        /\ apu = s.m.apu
        /\ emu = [running |-> FALSE, romLoaded |-> TRUE]
        /\ obs = [op |-> "load", drawn |-> s.drawn, offs |-> 0]

\* The screen positions of a line at which renderWindow writes a pixel.
WindowPixels(p, line) ==
    {x \in 0 .. ScreenW - 1 : WindowDrawn(p, line) /\ x >= p.wx - 7}

\* A write to LCDC or WY, through MMU.write.
WindowWrite ==
    /\ \E w \in WindowWrites :
         /\ (LcdOn(ppu) /\ w[1] = 65344 /\ w[2] < 128) => obs.offs < MaxOffSwitches
         /\ Commit(MmuWrite(Machine, w[1], w[2]))
    /\ obs' = IF LcdOn(ppu) /\ ~LcdOn(ppu')
              THEN [op |-> "write", drawn |-> 0, offs |-> obs.offs + 1]
              ELSE [obs EXCEPT !.op = "write"]
    /\ UNCHANGED emu

\* PPU.step(cycles).
WindowStep ==
    /\ ppu.ly < MaxWindowLines \/ ppu.ly = ScreenH + 9
    /\ \E c \in WindowCycles : Commit(PpuStep(Machine, c))
    /\ obs' = [obs EXCEPT !.op = "step",
                          !.drawn = IF ppu'.ly = 0 /\ ppu.ly # 0 THEN 0
                                    ELSE IF ppu.mode = 3 /\ ppu'.mode = 0
                                               /\ WindowPixels(ppu, ppu.ly) # {}
                                         THEN @ + 1
                                         ELSE @]
    /\ UNCHANGED emu

NextWindow == WindowWrite \/ WindowStep

SpecWindow == InitWindow /\ [][NextWindow]_vars

\* C29 as stated: the window's line counter is 0 when a frame starts on line
\* 0, both at the wrap from the last line and when the display has been
\* switched off and is switched on again, and at every moment it equals the
\* number of scanlines of the current frame on which a window pixel has been
\* drawn.
C29_WindowLine ==
    [][/\ (obs'.op = "step" /\ ppu'.ly = 0 /\ ppu.ly # 0) => ppu'.windowLine = 0
       /\ (obs'.op = "write" /\ ~LcdOn(ppu) /\ LcdOn(ppu')) =>
            (ppu'.ly = 0 /\ ppu'.windowLine = 0)
       /\ ppu'.windowLine = obs'.drawn]_vars

\* C29 without the display switch: the counter is 0 after the wrap from the
\* last line to line 0, and it equals the number of scanlines on which the
\* window was drawn as long as the display has not been switched off since
\* the frame began.
C29_WindowLineAtWrap ==
    [][/\ (obs'.op = "step" /\ ppu'.ly = 0 /\ ppu.ly # 0) => ppu'.windowLine = 0
       /\ (obs'.op = "step" /\ ppu.windowLine = obs.drawn) =>
            ppu'.windowLine = obs'.drawn]_vars

\* The wrap to line 0 has reset a counter of 144, and the window has since
\* been drawn on line 1 but not on line 0.
C29_WitnessWrap ==
    /\ ppu.imageData.shown /\ LcdOn(ppu)
    /\ ppu.ly = 1 /\ ppu.mode = 0 /\ ppu.wy = 1
    /\ ppu.windowLine = 1 /\ obs.drawn = 1

\* The display was switched off after the window was drawn on line 0 and is
\* on again.
C29_WitnessOffOn ==
    /\ obs.op = "write" /\ LcdOn(ppu)
    /\ ppu.ly = 0 /\ ppu.mode = 0 /\ ppu.modeCycles = 0
    /\ ppu.windowLine = 1 /\ obs.drawn = 0

(***************************************************************************)
(* Restore specification.  An MBC1 cartridge with RAM has been loaded and  *)
(* the machine configured: external RAM enabled and written, the bank      *)
(* registers and the mode set, bytes at both ends of VRAM, WRAM, OAM and   *)
(* HRAM, IE, the timer and the window position.  The cartridge's program   *)
(* then overwrites one cell of each memory, the ROM bank and the           *)
(* RAM-enable, pops and pushes AF and enables interrupts.  The host        *)
(* single-steps it, takes a snapshot at any moment and hands the snapshot  *)
(* it holds back to loadState at any moment.  A run is followed until the  *)
(* program is interrupted or DIV reaches MaxDiv.  obs.at is the machine    *)
(* state the snapshot was taken in; obs.differed names the parts of the    *)
(* machine that differed from it when loadState was called.                *)
(***************************************************************************)
\* 0x100: LD A,3; LD (0x2000),A; LD (0x8000),A; LD (0xA000),A; LD (0xFE00),A;
\* LDH (0x80),A; LDH (0xFF),A; LD (0x0000),A; LD SP,0xC000; POP AF; PUSH AF;
\* EI; 0x11B: JP 0x11B.
RestoreProgram ==
    (256 :> 62) @@ (257 :> 3)
    @@ (258 :> 234) @@ (259 :> 0) @@ (260 :> 32)
    @@ (261 :> 234) @@ (262 :> 0) @@ (263 :> 128)
    @@ (264 :> 234) @@ (265 :> 0) @@ (266 :> 160)
    @@ (267 :> 234) @@ (268 :> 0) @@ (269 :> 254)
    @@ (270 :> 224) @@ (271 :> 128)
    @@ (272 :> 224) @@ (273 :> 255)
    @@ (274 :> 234) @@ (275 :> 0) @@ (276 :> 0)
    @@ (277 :> 49) @@ (278 :> 0) @@ (279 :> 192)
    @@ (280 :> 241) @@ (281 :> 245) @@ (282 :> 251)
    @@ (283 :> 195) @@ (284 :> 27) @@ (285 :> 1)

RestoreCart == Cart(3, 1, 3, TitleA, RestoreProgram)

\* RAM enable, mode 1, RAM bank 1, ROM bank 2, four bytes of external RAM,
\* VRAM, WRAM, OAM, HRAM, IE, TMA, TAC, WY.
RestoreSetup ==
    <<(<<0, 10>>), (<<24576, 1>>), (<<16384, 1>>), (<<8192, 2>>),
      (<<40960, 90>>), (<<40961, 255>>), (<<40962, 255>>), (<<49151, 1>>),
      (<<32768, 255>>), (<<32769, 255>>), (<<32770, 255>>), (<<40959, 1>>),
      (<<49152, 95>>), (<<49153, 9>>), (<<57343, 255>>),
      (<<65024, 16>>), (<<65183, 255>>),
      (<<65408, 1>>), (<<65534, 255>>),
      (<<65535, 31>>), (<<65286, 5>>), (<<65287, 5>>), (<<65354, 3>>)>>

\* What saveState serializes, the RTC apart, as the machine holds it.  An
\* array is the function from its non-zero indices to their bytes, so two
\* arrays are equal exactly when they agree byte for byte.
Serialized(S) ==
    [cpu |-> [a |-> S.cpu.a, b |-> S.cpu.b, c |-> S.cpu.c, d |-> S.cpu.d,
              e |-> S.cpu.e, h |-> S.cpu.h, l |-> S.cpu.l,
              flagZ |-> S.cpu.flagZ, flagN |-> S.cpu.flagN,
              flagH |-> S.cpu.flagH, flagC |-> S.cpu.flagC,
              sp |-> S.cpu.sp, pc |-> S.cpu.pc, ime |-> S.cpu.ime,
              imeScheduled |-> S.cpu.imeScheduled, halted |-> S.cpu.halted],
     ppu |-> [lcdc |-> S.ppu.lcdc, stat |-> S.ppu.stat, scy |-> S.ppu.scy,
              scx |-> S.ppu.scx, ly |-> S.ppu.ly, lyc |-> S.ppu.lyc,
              wy |-> S.ppu.wy, wx |-> S.ppu.wx, bgp |-> S.ppu.bgp,
              obp0 |-> S.ppu.obp0, obp1 |-> S.ppu.obp1, mode |-> S.ppu.mode,
              modeCycles |-> S.ppu.modeCycles, windowLine |-> S.ppu.windowLine],
     timer |-> [div |-> S.timer.div, tima |-> S.timer.tima, tma |-> S.timer.tma,
                tac |-> S.timer.tac, divCycles |-> S.timer.divCycles,
                timaCycles |-> S.timer.timaCycles],
     mbc |-> [romBank |-> S.mmu.romBank, romBankHigh |-> S.mmu.romBankHigh,
              ramBank |-> S.mmu.ramBank, ramEnabled |-> S.mmu.ramEnabled,
              mode |-> S.mmu.mbcMode],
     vram |-> S.mmu.vram, wram |-> S.mmu.wram, oam |-> S.mmu.oam,
     hram |-> S.mmu.hram, io |-> S.mmu.io, ie |-> S.mmu.ie, eram |-> S.mmu.eram]

InitRestore ==
    LET S == WriteAll(EmuLoadROM(EmuNew, RestoreCart), RestoreSetup)
    IN  /\ mmu = S.mmu
        /\ cpu = S.cpu
        /\ ppu = S.ppu
        /\ timer = S.timer
        /\ input = S.input
        /\ apu = S.apu
        /\ emu = [running |-> FALSE, romLoaded |-> TRUE]
        /\ obs = [op |-> "load", saved |-> NoSnapshot, at |-> S, differed |-> {}]

\* Emulator.step().
RestoreStep ==
    /\ timer.div < MaxDiv
    /\ CanStep(Machine)
    /\ Commit(EmuStep(Machine))
    /\ obs' = [obs EXCEPT !.op = "step", !.differed = {}]
    /\ UNCHANGED emu

\* Emulator.saveState().
RestoreSave ==
    /\ obs' = [op |-> "saveState", saved |-> SaveState(Machine), at |-> Machine,
               differed |-> {}]
    /\ UNCHANGED <<mmu, cpu, ppu, timer, input, apu, emu>>

\* Emulator.loadState(state) with the snapshot the host holds.
RestoreLoad ==
    /\ obs.saved # NoSnapshot
    /\ Commit(LoadState(emu.romLoaded, Machine, obs.saved))
    /\ obs' = [obs EXCEPT
                 !.op = "loadState",
                 !.saved = [@ EXCEPT !.mbc.rtcLive = FALSE,
                                     !.mbc.rtc = SnapshotRtc(Machine, obs.saved)],
                 !.differed = {f \in DOMAIN Serialized(Machine) :
                                  Serialized(Machine)[f] # Serialized(obs.at)[f]}]
    /\ UNCHANGED emu

NextRestore == RestoreStep \/ RestoreSave \/ RestoreLoad

SpecRestore == InitRestore /\ [][NextRestore]_vars

\* C30: after loadState has been handed the snapshot saveState returned, every
\* serialized field other than the RTC holds what it held when the snapshot
\* was taken: the CPU registers, flags, IME, the pending-IME latch and HALT,
\* the PPU registers, mode, mode-cycle counter and window line, the timer
\* registers and its two counters, the MBC bank registers, RAM-enable and
\* mode, and VRAM, WRAM, OAM, HRAM, IO, IE and external RAM byte for byte.
C30_RoundTrip ==
    obs.op = "loadState" => Serialized(Machine) = Serialized(obs.at)

\* C30 witness: a snapshot taken before the program ran has been loaded after
\* the program had changed the CPU, the PPU, the timer, the MBC registers and
\* each of the memories, and external RAM holds its four bytes again.
C30_Witness ==
    /\ obs.op = "loadState"
    /\ obs.differed = DOMAIN Serialized(Machine)
    /\ cpu.pc = 256 /\ mmu.ramEnabled /\ mmu.romBank = 2
    /\ Get(mmu.eram, 8192) = 90 /\ Get(mmu.eram, 8193) = 255
    /\ Get(mmu.vram, 0) = 255 /\ Get(mmu.hram, 126) = 255 /\ mmu.ie = 31

(***************************************************************************)
(* Clock specification.  An MBC3 cartridge with a clock has been loaded    *)
(* and the program has enabled external RAM and selected the seconds       *)
(* register.  It then selects the seconds or the minutes register, writes  *)
(* the selected register, writes 0, 1 or 2 to the latch range and reads    *)
(* the selected register.  obs.prev holds the last three values written    *)
(* to the latch range.                                                     *)
(***************************************************************************)
RtcCart == Cart(16, 0, 3, TitleA, Zeros)

RtcWrites ==
    {<<16384, 8>>, <<16384, 9>>, <<40960, 5>>, <<49151, 69>>,
     <<24576, 0>>, <<32767, 1>>, <<24576, 1>>, <<24576, 2>>}

\* What MMU.read returns for each clock register 0x08..0x0C, external RAM
\* being enabled.
RtcReads(S) ==
    [r \in 8 .. 12 |->
        MmuRead([S EXCEPT !.mmu.ramBank = r, !.mmu.ramEnabled = TRUE], 40960)]

InitRtc ==
    LET S == WriteAll(EmuLoadROM(EmuNew, RtcCart), <<(<<0, 10>>), (<<16384, 8>>)>>)
    IN  /\ mmu = S.mmu
        /\ cpu = S.cpu
        /\ ppu = S.ppu
        /\ timer = S.timer
        /\ input = S.input
        /\ apu = S.apu
        /\ emu = [running |-> FALSE, romLoaded |-> TRUE]
        /\ obs = [op |-> "load", addr |-> 0, value |-> 0, prev |-> <<>>]

LastTwo(q) == IF Len(q) > 2 THEN SubSeq(q, Len(q) - 1, Len(q)) ELSE q

\* MMU.write(addr, value).
RtcWrite ==
    /\ \E w \in RtcWrites :
         /\ Commit(MmuWrite(Machine, w[1], w[2]))
         /\ obs' = [obs EXCEPT !.op = "write", !.addr = w[1], !.value = w[2],
                               !.prev = IF w[1] >= 24576 /\ w[1] < 32768
                                        THEN LastTwo(@) \o <<w[2]>> ELSE @]
    /\ UNCHANGED emu

\* MMU.read(0xA000).
RtcRead ==
    /\ obs' = [obs EXCEPT !.op = "read", !.addr = 40960,
                          !.value = MmuRead(Machine, 40960)]
    /\ UNCHANGED <<mmu, cpu, ppu, timer, input, apu, emu>>

NextRtc == RtcWrite \/ RtcRead

SpecRtc == InitRtc /\ [][NextRtc]_vars

\* The clock registers as the program sees them: the latched copy once a
\* latch has happened, the live registers before.
C32_Visible(m) == IF m.rtcLatched THEN m.rtcLatchedData ELSE m.rtc

\* C32: a write replaces the latched copy by the live clock values exactly
\* when it writes 0x01 to 0x6000-0x7FFF and the last write to that range
\* wrote 0x00; once latched, a write to the clock registers or any other
\* write that is not such a latch leaves what the clock registers return
\* unchanged, and a read returns the latched value of the selected register.
C32_Latch ==
    [][/\ obs'.op = "write" =>
            LET latch == /\ obs'.addr >= 24576 /\ obs'.addr < 32768
                         /\ obs'.value = 1
                         /\ obs.prev # <<>> /\ obs.prev[Len(obs.prev)] = 0
            IN  /\ latch => (mmu'.rtcLatched /\ mmu'.rtcLatchedData = mmu.rtc)
                /\ ~latch => /\ mmu'.rtcLatched = mmu.rtcLatched
                             /\ mmu'.rtcLatchedData = mmu.rtcLatchedData
                /\ (mmu.rtcLatched /\ ~latch) =>
                        RtcReads([Machine EXCEPT !.mmu = mmu']) = RtcReads(Machine)
       /\ (obs'.op = "read" /\ mmu.rtcLatched) =>
            obs'.value = RtcField(mmu.rtcLatchedData, mmu.ramBank)]_vars

\* C32 witness: the clock was latched with seconds 0, the seconds register
\* has since been written with 5, and a read of it returns 0.
C32_Witness ==
    /\ obs.op = "read" /\ obs.value = 0
    /\ mmu.rtcLatched /\ mmu.ramBank = 8
    /\ mmu.rtc.seconds = 5 /\ mmu.rtcLatchedData.seconds = 0

\* C32 witness of a latch that does not happen: 0x01 has been written to the
\* latch range right after 0x02, which followed 0x00, and the clock is not
\* latched.
C32_WitnessNoLatch ==
    /\ obs.op = "write" /\ obs.prev = <<0, 2, 1>>
    /\ ~mmu.rtcLatched /\ mmu.rtc.seconds = 5

(***************************************************************************)
(* Clock snapshot specification.  With the same cartridge, external RAM    *)
(* enabled and the seconds register selected, the program writes the       *)
(* seconds register and latches the clock while the host takes snapshots   *)
(* and hands the snapshot it holds back to loadState.  obs.readAt is what  *)
(* the clock registers returned when the snapshot was taken.               *)
(***************************************************************************)
ClockWrites == {<<40960, 5>>, <<40960, 9>>, <<24576, 0>>, <<24576, 1>>}

InitClock ==
    LET S == WriteAll(EmuLoadROM(EmuNew, RtcCart), <<(<<0, 10>>), (<<16384, 8>>)>>)
    IN  /\ mmu = S.mmu
        /\ cpu = S.cpu
        /\ ppu = S.ppu
        /\ timer = S.timer
        /\ input = S.input
        /\ apu = S.apu
        /\ emu = [running |-> FALSE, romLoaded |-> TRUE]
        /\ obs = [op |-> "load", saved |-> NoSnapshot, readAt |-> RtcReads(S)]

\* MMU.write(addr, value).
ClockWrite ==
    /\ \E w \in ClockWrites : Commit(MmuWrite(Machine, w[1], w[2]))
    /\ obs' = [obs EXCEPT !.op = "write"]
    /\ UNCHANGED emu

\* Emulator.saveState().
ClockSave ==
    /\ obs' = [op |-> "saveState", saved |-> SaveState(Machine),
               readAt |-> RtcReads(Machine)]
    /\ UNCHANGED <<mmu, cpu, ppu, timer, input, apu, emu>>

\* Emulator.loadState(state) with the snapshot the host holds.
ClockLoad ==
    /\ obs.saved # NoSnapshot
    /\ Commit(LoadState(emu.romLoaded, Machine, obs.saved))
    /\ obs' = [obs EXCEPT
                 !.op = "loadState",
                 !.saved = [@ EXCEPT !.mbc.rtcLive = FALSE,
                                     !.mbc.rtc = SnapshotRtc(Machine, obs.saved)]]
    /\ UNCHANGED emu

NextClock == ClockWrite \/ ClockSave \/ ClockLoad

SpecClock == InitClock /\ [][NextClock]_vars

\* C31 as stated: after loadState has been handed the snapshot the host took,
\* each clock register reads what it read when the snapshot was taken.
C31_RtcRestored ==
    obs.op = "loadState" => RtcReads(Machine) = obs.readAt

(***************************************************************************)
(* DAC specification.  After a cartridge load, with every DAC off, the     *)
(* program turns the DAC of each channel on and off (NR12, NR22, NR30,     *)
(* NR42) and triggers each channel (NR14, NR24, NR34, NR44), the sound     *)
(* unit being on.                                                          *)
(***************************************************************************)
\* NR12 = 0x08 (DAC on) and 0x07 (envelope period only: DAC off),
\* NR14 = 0x80; NR22 and NR42 = 0x08 and 0x00, NR24 and NR44 = 0x80;
\* NR30 = 0x80 and 0x00, NR34 = 0x80.
DacWrites ==
    {<<65298, 8>>, <<65298, 7>>, <<65300, 128>>,
     <<65303, 8>>, <<65303, 0>>, <<65305, 128>>,
     <<65306, 128>>, <<65306, 0>>, <<65310, 128>>,
     <<65313, 8>>, <<65313, 0>>, <<65315, 128>>}

InitDac ==
    LET S == EmuLoadROM(EmuNew, Cart(0, 0, 0, TitleA, Zeros))
    IN  /\ mmu = S.mmu
        /\ cpu = S.cpu
        /\ ppu = S.ppu
        /\ timer = S.timer
        /\ input = S.input
        /\ apu = S.apu
        /\ emu = [running |-> FALSE, romLoaded |-> TRUE]
        /\ obs = [op |-> "load", addr |-> 0, value |-> 0]

\* A write to a sound register, through MMU.write.
DacWrite ==
    /\ \E w \in DacWrites :
         /\ Commit(MmuWrite(Machine, w[1], w[2]))
         /\ obs' = [obs EXCEPT !.op = "write", !.addr = w[1], !.value = w[2]]
    /\ UNCHANGED emu

NextDac == DacWrite

SpecDac == InitDac /\ [][NextDac]_vars

\* The four channels of a sound unit.
C33_Channels(a) == <<a.ch1, a.ch2, a.ch3, a.ch4>>

\* The trigger register and the DAC register of each channel.
C33_Trigger == <<65300, 65305, 65310, 65315>>

C33_DacRegister == <<65298, 65303, 65306, 65313>>

\* The bits of the DAC register that switch the DAC on.
C33_DacMask == <<248, 248, 128, 248>>

\* Each channel of the sound unit is enabled only if its DAC is on.
C33_DacInvariant(a) == \A k \in 1 .. 4 : a[k].enabled => a[k].dacEnabled

\* The same of the current sound unit, for the specifications that feed
\* APU.step.
C33_DacInvariantNow == C33_DacInvariant(C33_Channels(apu))

\* C33: in every state each channel is enabled only if its DAC is on; a
\* trigger written while the DAC is off leaves the channel disabled; and a
\* write that turns a DAC off leaves its channel disabled.
C33_EnabledOnlyWithDac ==
    [][\A k \in 1 .. 4 :
         LET c == C33_Channels(apu)[k]
             d == C33_Channels(apu')[k]
         IN  /\ c.enabled => c.dacEnabled
             /\ d.enabled => d.dacEnabled
             /\ (obs'.op = "write" /\ obs'.addr = C33_Trigger[k] /\ ~c.dacEnabled)
                    => ~d.enabled
             /\ (obs'.op = "write" /\ obs'.addr = C33_DacRegister[k]
                    /\ apu.masterEnable /\ And(obs'.value, C33_DacMask[k]) = 0)
                    => (~d.dacEnabled /\ ~d.enabled)
             /\ (obs'.op = "write" /\ obs'.addr = C33_Trigger[k]
                    /\ apu.masterEnable /\ c.dacEnabled)
                    => d.enabled]_vars

\* C33 witness: channel 1 was enabled and the write NR12 = 0x07 has turned
\* its DAC off and disabled it, while channels 2, 3 and 4 are enabled.
C33_Witness ==
    /\ obs.op = "write" /\ obs.addr = 65298 /\ obs.value = 7
    /\ ~apu.ch1.dacEnabled /\ ~apu.ch1.enabled /\ apu.ch1.lengthCounter = 64
    /\ apu.ch2.enabled /\ apu.ch3.enabled /\ apu.ch4.enabled

\* C33 witness of a trigger with the DAC off: NR34 = 0x80 has been written
\* with the sound unit on and channel 3's DAC off, and channel 3 is disabled
\* with its length counter reloaded.
C33_WitnessTrigger ==
    /\ obs.op = "write" /\ obs.addr = 65310
    /\ apu.masterEnable /\ ~apu.ch3.dacEnabled /\ ~apu.ch3.enabled
    /\ apu.ch3.lengthCounter = 256

\* ---------------------------------------------------------------------------
\* The frame sequencer: APU.step fed with cycles while the master enable is set.
\* ---------------------------------------------------------------------------

MaxSeqFires == 9

\* The cycle counts handed to APU.step: the shortest and the longest CPU step
\* and half a sequencer period.
SeqCycles == {4, 24, 4096}

\* Channel 1 with sweep period 1 and shift 7 at frequency 0x400, channel 2
\* with length 64 enabled and a rising envelope of period 1 from volume 0.
SeqSetup ==
    <<(<<65296, 23>>), (<<65298, 240>>), (<<65299, 0>>), (<<65300, 132>>),
      (<<65302, 0>>), (<<65303, 9>>), (<<65305, 192>>)>>

InitSeq ==
    LET S == WriteAll(EmuLoadROM(EmuNew, Cart(0, 0, 0, TitleA, Zeros)), SeqSetup)
    IN  /\ mmu = S.mmu
        /\ cpu = S.cpu
        /\ ppu = S.ppu
        /\ timer = S.timer
        /\ input = S.input
        /\ apu = S.apu
        /\ emu = [running |-> FALSE, romLoaded |-> TRUE]
        /\ obs = [op |-> "load", total |-> 0]

\* APU.step(cycles).
SeqRun ==
    /\ obs.total < MaxSeqFires * 8192
    /\ \E c \in SeqCycles :
         /\ apu' = ApuStep(apu, c)
         /\ obs' = [op |-> "step", total |-> obs.total + c]
    /\ UNCHANGED <<mmu, cpu, ppu, timer, input, emu>>

NextSeq == SeqRun

SpecSeq == InitSeq /\ [][NextSeq]_vars

\* The number of sequencer steps k < n whose position k mod 8 is in `at`.
C34_Count(n, at) == Cardinality({k \in 0 .. n - 1 : k % 8 \in at})

RECURSIVE C34_Swept(_, _)
C34_Swept(f, j) == IF j = 0 THEN f ELSE C34_Swept(f + f \div 128, j - 1)

C34_Min(a, b) == IF a < b THEN a ELSE b

\* C34: with the master enable set, after T cycles fed to APU.step the frame
\* sequencer has fired T div 8192 times and stands at step (T div 8192) mod 8;
\* the length counter has been clocked once per fired step 0, 2, 4, 6, the
\* sweep once per fired step 2, 6 and the envelope once per fired step 7.
C34_FrameSequencer ==
    LET n == obs.total \div 8192
    IN  /\ apu.masterEnable
        /\ apu.frameSequencerStep = n % 8
        /\ apu.frameSequencerCycles = obs.total % 8192
        /\ apu.ch2.lengthCounter = 64 - C34_Count(n, {0, 2, 4, 6})
        /\ apu.ch1.frequency = C34_Swept(1024, C34_Count(n, {2, 6}))
        /\ apu.ch2.envVolume = C34_Min(15, C34_Count(n, {7}))

\* The sequencer has walked through all eight steps and started over, and
\* every clock has run.
C34_Witness ==
    /\ obs.total \div 8192 = 9
    /\ apu.frameSequencerStep = 1
    /\ apu.ch2.lengthCounter = 59
    /\ apu.ch1.frequency = 1040
    /\ apu.ch2.envVolume = 1

\* A step that crosses the period keeps the cycles beyond it.
C34_WitnessCarry ==
    /\ obs.total = 8192 + 20
    /\ apu.frameSequencerStep = 1
    /\ apu.frameSequencerCycles = 20
    /\ apu.ch2.lengthCounter = 63

\* ---------------------------------------------------------------------------
\* The cycle loop of the test drivers: for each frame, cpu.step, timer.step
\* and ppu.step until 70224 cycles have been counted; frameCount counts the
\* calls of ppu.step that returned true.  The cycles of a CPU step are an
\* input; the LCD stays on.
\* ---------------------------------------------------------------------------

MaxLoopFrames == 2

LoopCycles == {4, 12, 24}

\* The cycles from reset to the first V-blank: 144 lines of 456 cycles.
FirstVBlank == 144 * 456

InitLoop ==
    /\ mmu = EmuLoadROM(EmuNew, Cart(0, 0, 0, TitleA, Zeros)).mmu
    /\ cpu = CpuReset
    /\ ppu = PpuReset(PpuNew)
    /\ timer = TimerReset
    /\ input = InputReset
    /\ apu = ApuReset(ApuNew)
    /\ emu = [running |-> FALSE, romLoaded |-> TRUE]
    /\ obs = [frame |-> 0, frameCycles |-> 0, frameCount |-> 0, total |-> 0,
              ret |-> FALSE]

\* One iteration of the inner loop; the one that reaches CYCLES_PER_FRAME ends
\* the frame of the outer loop.
LoopIter ==
    /\ obs.frame < MaxLoopFrames
    /\ \E c \in LoopCycles :
         LET S1 == TimerStep(Machine, c)
             ret == PpuFrameComplete(S1, c)
             fc == obs.frameCycles + c
         IN  /\ Commit(PpuStep(S1, c))
             /\ obs' = [frame |-> IF fc < CyclesPerFrame THEN obs.frame ELSE obs.frame + 1,
                        frameCycles |-> IF fc < CyclesPerFrame THEN fc ELSE 0,
                        frameCount |-> IF ret THEN obs.frameCount + 1 ELSE obs.frameCount,
                        total |-> obs.total + c,
                        ret |-> ret]
    /\ UNCHANGED emu

NextLoop == LoopIter

SpecLoop == InitLoop /\ [][NextLoop]_vars

\* The frames presented after `total` cycles from reset: one at the first
\* V-blank and one per 70224 cycles after it.
C35_Presented(total) ==
    IF total < FirstVBlank THEN 0 ELSE (total - FirstVBlank) \div CyclesPerFrame + 1

C35_WitnessFirst ==
    /\ obs.ret /\ obs.frameCount = 1 /\ obs.frame = 0
    /\ ppu.ly = 144 /\ ppu.mode = 1 /\ ppu.imageData.shown

\* ---------------------------------------------------------------------------
\* Interrupt requests across a frame: Emulator.frame()'s loop runs a program
\* that enables V-blank in IE, starts the fast timer, clears IF, executes EI
\* or DI and then
\* loops over NOP or HALT; the loop either stays away from IF or writes 0 to
\* it on every round.  RETI stands at every vector.
\* ---------------------------------------------------------------------------

MaxIrqFrames == 1

\* The operand of the JR that closes the loop: back to the NOP/HALT, or back to
\* the write of IF.
IrqJumps == {253, 248}

\* LD SP,0xFFFE; LD A,1; LDH (FF),A; LD A,0xFC; LDH (05),A; LD A,5;
\* LDH (07),A; LD A,0; LDH (0F),A; EI or DI; NOP or HALT; JR.
IrqProgram(ei, op, jr) ==
    Vectors
    @@ (256 :> 49) @@ (257 :> 254) @@ (258 :> 255)
    @@ (259 :> 62) @@ (260 :> 1) @@ (261 :> 224) @@ (262 :> 255)
    @@ (263 :> 62) @@ (264 :> 252) @@ (265 :> 224) @@ (266 :> 5)
    @@ (267 :> 62) @@ (268 :> 5) @@ (269 :> 224) @@ (270 :> 7)
    @@ (271 :> 62) @@ (272 :> 0) @@ (273 :> 224) @@ (274 :> 15)
    @@ (275 :> ei) @@ (276 :> op) @@ (277 :> 24) @@ (278 :> jr)

IrqPrograms ==
    {IrqProgram(ei, op, jr) : ei \in {251, 243}, op \in {118, 0}, jr \in IrqJumps}

InitIrq ==
    /\ \E code \in IrqPrograms :
         LET S == EmuLoadROM(EmuNew, Cart(0, 0, 0, TitleA, code))
         IN  /\ mmu = S.mmu
             /\ cpu = S.cpu
             /\ ppu = S.ppu
             /\ timer = S.timer
             /\ input = S.input
             /\ apu = S.apu
    /\ emu = [running |-> TRUE, romLoaded |-> TRUE]
    /\ obs = [op |-> "load", frame |-> 0, frameCycles |-> 0, kind |-> "none",
              served |-> 0, wroteIF |-> FALSE,
              vblank |-> FALSE, touched |-> FALSE, imeSeen |-> FALSE]

\* One iteration of the loop of Emulator.frame(): CPU.step (the scheduled IME
\* enable, handleInterrupts, then the early returns or the instruction), then
\* the timer, pixel and sound units; the iteration that reaches cyclesPerFrame
\* ends the callback.  The only store in the programs is LDH (n),A.
IrqFrameIter ==
    /\ obs.frame < MaxIrqFrames
    /\ LET S0 == ImeApplied(Machine)
           S1 == HandleInterrupts(S0)
           ic == InterruptCycles(S0)
           kind == IF ic > 0 THEN "dispatch"
                   ELSE IF S1.cpu.halted THEN "halted" ELSE "exec"
           opcode == FetchValue(S1)
           M == CpuStepFrom(S1, ic)
           c == CpuStepCyclesFrom(S1, ic)
           fc == obs.frameCycles + c
           served == IF kind = "dispatch" THEN 2 ^ LowestBit(Pending(S0)) ELSE 0
           wrote == kind = "exec" /\ opcode = 224 /\ FetchValue(Fetched(S1)) = 15
           entered == ppu.ly = 143 /\ ppu'.ly = 144
       IN  /\ kind = "exec" => opcode \in Opcodes
           /\ Commit(FrameDevices(M, c))
           /\ obs' = [op |-> "iter",
                      frame |-> IF fc < CyclesPerFrame THEN obs.frame ELSE obs.frame + 1,
                      frameCycles |-> IF fc < CyclesPerFrame THEN fc ELSE 0,
                      kind |-> kind, served |-> served, wroteIF |-> wrote,
                      vblank |-> (obs.vblank \/ entered),
                      touched |-> IF entered THEN FALSE
                                  ELSE (obs.touched \/ wrote \/ served = 1),
                      imeSeen |-> (obs.imeSeen \/ M.cpu.ime)]
    /\ UNCHANGED emu

NextIrq == IrqFrameIter

SpecIrq == InitIrq /\ [][NextIrq]_vars

\* C36: a request bit that is set stays set across a CPU, timer, PPU and APU
\* step unless that step dispatched this interrupt or its instruction wrote to
\* 0xFF0F; a V-blank request raised during the frame and not dispatched or
\* overwritten since is still set when the frame ends.
C36_RequestsPersist ==
    /\ [][\A b \in 0 .. 4 :
            (Bit(Get(mmu.io, 15), b) = 1 /\ Bit(Get(mmu'.io, 15), b) = 0) =>
                (obs'.served = 2 ^ b \/ obs'.wroteIF)]_vars
    /\ []((obs.frame >= 1 /\ obs.frameCycles = 0 /\ obs.vblank /\ ~obs.touched) =>
             Bit(Get(mmu.io, 15), 0) = 1)
    /\ []((obs.frame >= 1 /\ obs.frameCycles = 0 /\ ~obs.imeSeen /\ ~obs.touched) =>
             (obs.vblank /\ Bit(Get(mmu.io, 15), 0) = 1))

\* The frame has ended with IME clear all along and no write to IF after the
\* V-blank request, and the V-blank and timer requests are set.
C36_Witness ==
    /\ obs.frame = 1 /\ obs.frameCycles = 0
    /\ ~obs.imeSeen /\ obs.vblank /\ ~obs.touched
    /\ And(Get(mmu.io, 15), 5) = 5

\* The V-blank interrupt has been dispatched and its request cleared while the
\* timer request stays set.
C36_WitnessDispatch ==
    /\ obs.kind = "dispatch" /\ obs.served = 1
    /\ And(Get(mmu.io, 15), 5) = 4

\* The program has overwritten a set request.
C36_WitnessWrite ==
    /\ obs.wroteIF /\ obs.vblank /\ obs.touched
    /\ And(Get(mmu.io, 15), 1) = 0

\* ---------------------------------------------------------------------------
\* The cycles CPU.step returns, for the whole instruction set, and the cycle
\* loop of Emulator.frame() fed with them.
\* ---------------------------------------------------------------------------

\* The returns of opcodes 0x00-0x3F, with the branch taken and not taken.
LowTaken ==
    <<4, 12, 8, 8, 4, 4, 8, 4, 20, 8, 8, 8, 4, 4, 8, 4,
      4, 12, 8, 8, 4, 4, 8, 4, 12, 8, 8, 8, 4, 4, 8, 4,
      12, 12, 8, 8, 4, 4, 8, 4, 12, 8, 8, 8, 4, 4, 8, 4,
      12, 12, 8, 8, 12, 12, 12, 4, 12, 8, 8, 8, 4, 4, 8, 4>>

LowUntaken ==
    <<4, 12, 8, 8, 4, 4, 8, 4, 20, 8, 8, 8, 4, 4, 8, 4,
      4, 12, 8, 8, 4, 4, 8, 4, 12, 8, 8, 8, 4, 4, 8, 4,
      8, 12, 8, 8, 4, 4, 8, 4, 8, 8, 8, 8, 4, 4, 8, 4,
      8, 12, 8, 8, 12, 12, 12, 4, 8, 8, 8, 8, 4, 4, 8, 4>>

\* The returns of opcodes 0xC0-0xFF, with the branch taken and not taken.
HighTaken ==
    <<20, 12, 16, 16, 24, 16, 8, 16, 20, 16, 16, 4, 24, 24, 8, 16,
      20, 12, 16, 4, 24, 16, 8, 16, 20, 16, 16, 4, 24, 4, 8, 16,
      12, 12, 8, 4, 4, 16, 8, 16, 16, 4, 16, 4, 4, 4, 8, 16,
      12, 12, 8, 4, 4, 16, 8, 16, 12, 8, 16, 4, 4, 4, 8, 16>>

HighUntaken ==
    <<8, 12, 12, 16, 12, 16, 8, 16, 8, 16, 12, 4, 12, 24, 8, 16,
      8, 12, 12, 4, 12, 16, 8, 16, 8, 16, 12, 4, 12, 4, 8, 16,
      12, 12, 8, 4, 4, 16, 8, 16, 16, 4, 16, 4, 4, 4, 8, 16,
      12, 12, 8, 4, 4, 16, 8, 16, 12, 8, 16, 4, 4, 4, 8, 16>>

\* opcodes[opcode](cpu): the cycles returned.  LD r,r' and HALT fill
\* 0x40-0x7F, the accumulator arithmetic 0x80-0xBF; register 6 is (HL).
OpcodeCycles(opcode, taken) ==
    IF opcode < 64 THEN (IF taken THEN LowTaken ELSE LowUntaken)[opcode + 1]
    ELSE IF opcode = 118 THEN 4
    ELSE IF opcode < 128
         THEN (IF opcode % 8 = 6 \/ (opcode \div 8) % 8 = 6 THEN 8 ELSE 4)
    ELSE IF opcode < 192 THEN (IF opcode % 8 = 6 THEN 8 ELSE 4)
    ELSE (IF taken THEN HighTaken ELSE HighUntaken)[opcode - 191]

\* Mutant of CbCycles: BIT b,(HL) takes 10 cycles.
CbCycles_OddBit(opcode) ==
    IF opcode % 8 # 6 THEN 8
    ELSE IF opcode >= 64 /\ opcode < 128 THEN 10
    ELSE 16

\* cbOpcodes[opcode](cpu): the cycles returned.
CbCycles(opcode) ==
    IF opcode % 8 # 6 THEN 8
    ELSE IF opcode >= 64 /\ opcode < 128 THEN 12
    ELSE 16

\* Every value CPU.step can return: an interrupt dispatch, the halted state,
\* an opcode with its branch taken or not, a prefixed opcode.
StepReturns ==
    {20, 4}
        \cup {OpcodeCycles(op, t) : op \in (0 .. 255) \ {203}, t \in BOOLEAN}
        \cup {CbCycles(op) : op \in 0 .. 255}

MaxCycleFrames == 1

InitCycles ==
    LET S == EmuLoadROM(EmuNew, Cart(0, 0, 0, TitleA, Zeros))
    IN  /\ mmu = S.mmu
        /\ cpu = S.cpu
        /\ ppu = S.ppu
        /\ timer = S.timer
        /\ input = S.input
        /\ apu = S.apu
        /\ emu = [running |-> TRUE, romLoaded |-> TRUE]
        /\ obs = [frame |-> 0, inFrame |-> FALSE, cycles |-> 0]

\* One iteration of the loop of Emulator.frame(), by the cycles its CPU step
\* returned; the first iteration of a callback starts the count at 0.
CycleIter ==
    /\ obs.inFrame \/ obs.frame < MaxCycleFrames
    /\ \E c \in StepReturns :
         LET total == (IF obs.inFrame THEN obs.cycles ELSE 0) + c
         IN  obs' = [frame |-> IF total < CyclesPerFrame THEN obs.frame
                               ELSE obs.frame + 1,
                     inFrame |-> total < CyclesPerFrame,
                     cycles |-> total]
    /\ UNCHANGED <<mmu, cpu, ppu, timer, input, apu, emu>>

NextCycles == CycleIter

SpecCycles == InitCycles /\ [][NextCycles]_vars /\ WF_vars(NextCycles)

\* C37: every value CPU.step returns is a multiple of 4 between 4 and 24; a
\* frame() callback that has started ends, and has then fed between 70224
\* and 70244 cycles to the devices.
C37_CycleBounds ==
    /\ [](\A c \in StepReturns : c % 4 = 0 /\ c >= 4 /\ c <= 24)
    /\ [](\A op \in Opcodes : ExecuteCycles(op) = OpcodeCycles(op, TRUE))
    /\ []((obs.frame >= 1 /\ ~obs.inFrame) =>
             (obs.cycles >= CyclesPerFrame /\ obs.cycles <= CyclesPerFrame + 20))
    /\ [](obs.inFrame => obs.cycles < CyclesPerFrame)
    /\ (obs.inFrame ~> ~obs.inFrame)

\* A callback has ended with the largest total: a 24-cycle step taken at
\* 70220 cycles.
C37_Witness ==
    /\ obs.frame = 1 /\ ~obs.inFrame
    /\ obs.cycles = CyclesPerFrame + 20

\* A callback has ended with exactly 70224 cycles.
C37_WitnessExact ==
    /\ obs.frame = 1 /\ ~obs.inFrame
    /\ obs.cycles = CyclesPerFrame

\* ---------------------------------------------------------------------------
\* The animation-frame callbacks of a loaded emulator: start() and pause() of
\* the host interleave with the callbacks the browser has been asked to run.
\* A callback runs to its end before the host can call anything.
\* ---------------------------------------------------------------------------

MaxPending == 2

MaxSchedFrames == 1

InitSched ==
    LET S == EmuLoadROM(EmuNew, Cart(0, 0, 0, TitleA, FrameProgram))
    IN  /\ mmu = S.mmu
        /\ cpu = S.cpu
        /\ ppu = S.ppu
        /\ timer = S.timer
        /\ input = S.input
        /\ apu = S.apu
        /\ emu = [running |-> FALSE, romLoaded |-> TRUE, pending |-> 0,
                  inFrame |-> FALSE, cycles |-> 0]
        /\ obs = [op |-> "load", frames |-> 0]

\* Emulator.start(): returns at once when running, else requests a callback.
SchedStart ==
    /\ ~emu.inFrame /\ emu.pending < MaxPending
    /\ IF emu.running
       THEN UNCHANGED <<mmu, cpu, ppu, timer, input, apu, emu>>
       ELSE /\ Commit(EmuStart(Machine))
            /\ emu' = [emu EXCEPT !.running = TRUE, !.pending = @ + 1]
    /\ obs' = [obs EXCEPT !.op = "start"]

\* Emulator.pause(): clears the flag; a requested callback stays requested.
SchedPause ==
    /\ ~emu.inFrame
    /\ emu' = [emu EXCEPT !.running = FALSE]
    /\ obs' = [obs EXCEPT !.op = "pause"]
    /\ UNCHANGED <<mmu, cpu, ppu, timer, input, apu>>

\* The browser runs a requested frame(timestamp): it returns when not running,
\* requests the next callback when the timestamp is early, and otherwise
\* enters the cycle loop.
SchedCallback ==
    /\ ~emu.inFrame /\ emu.pending > 0
    /\ \E early \in BOOLEAN :
         /\ ~early => obs.frames < MaxSchedFrames
         /\ emu' = IF ~emu.running THEN [emu EXCEPT !.pending = @ - 1]
                   ELSE IF early THEN emu
                   ELSE [emu EXCEPT !.pending = @ - 1, !.inFrame = TRUE, !.cycles = 0]
         /\ obs' = [obs EXCEPT !.op = IF ~emu.running THEN "return"
                                      ELSE IF early THEN "skip" ELSE "enter"]
    /\ UNCHANGED <<mmu, cpu, ppu, timer, input, apu>>

\* One iteration of the cycle loop; the one that reaches cyclesPerFrame
\* requests the next callback and ends this one.
SchedIter ==
    /\ emu.inFrame
    /\ CanStep(Machine)
    /\ Commit(FrameIterate(Machine))
    /\ LET total == emu.cycles + CpuStepCycles(Machine)
       IN  /\ emu' = [emu EXCEPT !.cycles = total,
                                 !.inFrame = total < CyclesPerFrame,
                                 !.pending = IF total < CyclesPerFrame THEN @ ELSE @ + 1]
           /\ obs' = [op |-> "iter",
                      frames |-> IF total < CyclesPerFrame THEN obs.frames
                                 ELSE obs.frames + 1]

NextSched == SchedStart \/ SchedPause \/ SchedCallback \/ SchedIter

SpecSched == InitSched /\ [][NextSched]_vars

\* The frame() callbacks requested or running.
Callbacks == emu.pending + (IF emu.inFrame THEN 1 ELSE 0)

\* C38: at most one frame() callback is requested or running at any time.
C38_OneCallback == Callbacks <= 1

\* C38, second part: a CPU step is taken only inside a callback that found the
\* emulator running, and never between pause() and the next start().
C38_PausedIdle ==
    [][/\ cpu' # cpu => (obs'.op = "iter" /\ emu.running /\ emu.inFrame)
       /\ (~emu.running /\ obs'.op # "start") => (cpu' = cpu /\ ~emu'.inFrame)]_vars

\* start(), pause(), start() before the first callback has run: two callbacks
\* are requested, and both run frames.
C38_WitnessTwo == emu.running /\ Callbacks = 2 /\ obs.frames = 1

\* ---------------------------------------------------------------------------
\* Loading a cartridge into an emulator that has run another one: the program
\* of the first cartridge writes bank registers and memory, then
\* Emulator.loadROM is called again.
\* ---------------------------------------------------------------------------

\* An MBC1 cartridge with 32 KiB of RAM and an MBC3 cartridge with a clock.
ReloadCarts == {Cart(3, 2, 3, TitleA, Zeros), Cart(16, 2, 3, TitleB, Zeros)}

\* RAM enable, ROM bank 2, RAM bank 1, the latch sequence 0, 1 (mode 1 on an
\* MBC1), and a byte to video, external, work and high RAM.
ReloadWrites ==
    {<<0, 10>>, <<8192, 2>>, <<16384, 1>>, <<24576, 0>>, <<24576, 1>>,
     <<32768, 7>>, <<40960, 7>>, <<49152, 7>>, <<65408, 7>>}

InitReload ==
    /\ \E data \in ReloadCarts :
         LET S == EmuLoadROM(EmuNew, data)
         IN  /\ mmu = S.mmu
             /\ cpu = S.cpu
             /\ ppu = S.ppu
             /\ timer = S.timer
             /\ input = S.input
             /\ apu = S.apu
             /\ obs = [op |-> "load", rom |-> data, writes |-> 0]
    /\ emu = [running |-> FALSE, romLoaded |-> TRUE]

\* A store of the running program, through MMU.write.
ReloadWrite ==
    /\ \E w \in ReloadWrites :
         /\ Commit(MmuWrite(Machine, w[1], w[2]))
         /\ obs' = [obs EXCEPT !.op = "write", !.writes = 1]
    /\ UNCHANGED emu

\* Emulator.loadROM(data) on the used emulator.
ReloadLoadROM ==
    /\ \E data \in ReloadCarts :
         /\ Commit(EmuLoadROM(Machine, data))
         /\ obs' = [op |-> "loadROM", rom |-> data, writes |-> obs.writes]
    /\ UNCHANGED emu

NextReload == ReloadWrite \/ ReloadLoadROM

SpecReload == InitReload /\ [][NextReload]_vars

\* The bank-controller state and the memories the claim is about.
C39_State(m) ==
    [romBank |-> m.romBank, ramBank |-> m.ramBank, ramEnabled |-> m.ramEnabled,
     mbcMode |-> m.mbcMode, rtcLatched |-> m.rtcLatched,
     vram |-> m.vram, wram |-> m.wram, oam |-> m.oam, hram |-> m.hram,
     eram |-> m.eram]

\* C39: right after Emulator.loadROM(rom) the bank-controller state and the
\* memories are those of a new emulator that has loaded rom.
C39_LoadIndependent ==
    obs.op = "loadROM" =>
        C39_State(mmu) = C39_State(EmuLoadROM(EmuNew, obs.rom).mmu)

\* What loadROM does reset, whatever ran before: the CPU, the pixel, timer,
\* input and sound units and the I/O registers, and the cartridge header
\* fields other than hasRTC.
C39_DevicesReset ==
    obs.op = "loadROM" =>
        LET F == EmuLoadROM(EmuNew, obs.rom)
        IN  /\ cpu = F.cpu /\ ppu = F.ppu /\ timer = F.timer /\ input = F.input
            /\ apu = F.apu /\ mmu.io = F.mmu.io
            /\ mmu.rom = F.mmu.rom /\ mmu.mbcType = F.mmu.mbcType
            /\ mmu.romBanks = F.mmu.romBanks /\ mmu.ramSize = F.mmu.ramSize

\* A cartridge has been loaded after the previous one selected ROM bank 2,
\* enabled RAM and wrote to external and work RAM, and all of that is still
\* in place.
C39_WitnessStale ==
    /\ obs.op = "loadROM" /\ obs.writes = 1
    /\ mmu.romBank = 2 /\ mmu.ramEnabled
    /\ Get(mmu.eram, 0) = 7 /\ Get(mmu.wram, 0) = 7

\* ---------------------------------------------------------------------------
\* The run-length coding of the saved state on its own: a byte array built
\* from up to three runs is compressed and decompressed again.
\* ---------------------------------------------------------------------------

\* The bytes of a run: zero, an ordinary byte and the escape value.
RleValues == {0, 7, 255}

\* The lengths of a run: below, at and above the threshold of 3, at and above
\* the largest count, and two full counts and one more.
RleLengths == {1, 2, 3, 255, 256, 511}

RleRuns == [value : RleValues, length : RleLengths]

RleInputs ==
    {<<a>> : a \in RleRuns} \cup {<<a, b>> : a, b \in RleRuns}
        \cup {<<a, b, c>> : a, b, c \in RleRuns}

RECURSIVE RleLength(_)
RleLength(runs) ==
    IF runs = <<>> THEN 0 ELSE runs[1].length + RleLength(Tail(runs))

\* The byte at index k of the array made of the runs.
RECURSIVE RleByte(_, _)
RleByte(runs, k) ==
    IF k < runs[1].length THEN runs[1].value
    ELSE RleByte(Tail(runs), k - runs[1].length)

\* The array made of the runs, as the model keeps arrays: the non-zero bytes
\* by index.
RleArray(runs) ==
    [k \in {j \in 0 .. RleLength(runs) - 1 : RleByte(runs, j) # 0} |-> RleByte(runs, k)]

InitRle ==
    LET S == EmuLoadROM(EmuNew, Cart(0, 0, 0, TitleA, Zeros))
    IN  /\ mmu = S.mmu
        /\ cpu = S.cpu
        /\ ppu = S.ppu
        /\ timer = S.timer
        /\ input = S.input
        /\ apu = S.apu
        /\ emu = [running |-> FALSE, romLoaded |-> TRUE]
        /\ \E runs \in RleInputs :
             obs = [op |-> "input", data |-> RleArray(runs), length |-> RleLength(runs),
                    packed |-> <<>>, out |-> Zeros]

\* _compressRLE(data).
RleCompress ==
    /\ obs.op = "input"
    /\ obs' = [obs EXCEPT !.op = "compress",
                          !.packed = CompressRLE(obs.data, obs.length)]
    /\ UNCHANGED <<mmu, cpu, ppu, timer, input, apu, emu>>

\* _decompressRLE(compressed, data.length).
RleDecompress ==
    /\ obs.op = "compress"
    /\ obs' = [obs EXCEPT !.op = "decompress",
                          !.out = DecompressRLE(obs.packed, obs.length)]
    /\ UNCHANGED <<mmu, cpu, ppu, timer, input, apu, emu>>

NextRle == RleCompress \/ RleDecompress

SpecRle == InitRle /\ [][NextRle]_vars

\* C40: every byte _compressRLE emits is in 0..255, and decompressing its
\* output to the length of the input gives the input back.
C40_RleRoundTrip ==
    /\ \A k \in 1 .. Len(obs.packed) : obs.packed[k] \in 0 .. 255
    /\ obs.op = "decompress" => obs.out = obs.data

\* An array with a run of more than 255 bytes of the escape value, followed
\* by a short run, has gone through both functions.
C40_Witness ==
    /\ obs.op = "decompress"
    /\ obs.length = 256 + 2 + 511
    /\ Get(obs.data, 0) = 255 /\ Get(obs.data, 255) = 255
    /\ Get(obs.data, 256) = 7 /\ Get(obs.data, 258) = 0
    /\ obs.packed = <<255, 255, 255, 255, 1, 255, 7, 7, 255, 255, 0, 255, 255, 0, 0>>

\* A single byte 255 is emitted as an escaped run of one.
C40_WitnessEscape ==
    /\ obs.op = "decompress" /\ obs.length = 1
    /\ obs.packed = <<255, 1, 255>> /\ Get(obs.out, 0) = 255

====
